---- MODULE Spec2Model ----
(***************************************************************************)
(* Blueberry browser: the realtime bridge (src/main/BridgeServer.ts) and   *)
(* the operations of the LLM client and the window it calls.               *)
(*                                                                         *)
(* One action is one turn of the Node event loop: a handler runs from the  *)
(* event that starts it to its first real suspension (an await on I/O),    *)
(* or from the resumption of an await to the next one.  Awaits that only   *)
(* yield to the microtask queue are part of the same action.               *)
(*                                                                         *)
(* Variables of two kinds:                                                 *)
(*   - program state: the fields of BridgeServer, the sockets' readyState, *)
(*     the window's tabs, the commands suspended on an await;              *)
(*   - out, the record of the latest step: which handler ran, the frame    *)
(*     that came in, what the handler handed to the transport and what     *)
(*     reached the wire.  Every action sets it anew, so it never           *)
(*     accumulates.                                                        *)
(*                                                                         *)
(* The conversation side (the MessageStore's log, the ModelManager's       *)
(* provider state, the LLMClient's turns) has its own variables and its    *)
(* own specifications: SpecStore (the log's operations), SpecAdmit (the    *)
(* bridge life cycle with the log), SpecLlm (provider switches and turns). *)
(* In Spec and SpecLife, llm.setOfflineMode and llm.sendChatMessage        *)
(* appear by what the bridge sees of them (they suspend, they broadcast,   *)
(* they return or raise) and the conversation side stays as constructed.   *)
(* In SpecLlm a conversation turn is one action, from the call of          *)
(* sendChatMessage to the settling of its promise, with what its awaits    *)
(* resolve to as inputs; the detached locale fallback is a second action.  *)
(***************************************************************************)
EXTENDS Integers, Sequences, FiniteSets, TLC

\* ---------------------------------------------------------------- bounds
\* Number of remote connections a behaviour may open.
NumConns == 2
\* Number of commands that may be suspended on an await at the same time.
MaxPending == 1
\* Latest clock reading (seconds) at which a handshake may happen.
MaxTime == 2

\* ------------------------------------------------------- program constants
\* ws.close(4001, "unauthorized")
UNAUTHORIZED == 4001
\* code a socket reports when it goes down without a close frame (terminate)
ABNORMAL == 1006
\* code of a normal closing handshake started by the peer
NORMAL == 1000
\* Number(process.env.BRIDGE_PING_SEC || 30)
DEFAULT_PING_SEC == 30
\* Math.max(10, pingSec)
MIN_PING_SEC == 10

\* ----------------------------------------------------------------- domains
Conn == 1..NumConns
Time == 0..MaxTime

\* process.env.BRIDGE_PING_SEC as read by start(): unset, or "0"
PingSecEnv == {"unset", "0"}

\* The same with values on either side of zero and of the floor.
PingSecEnvTimed == PingSecEnv \cup {"-5", "5", "45"}

\* The tabs the window may hold.  "t2" names a tab that is never there.
TabIds == {"t1"}
NoTab == "none"

\* The third element of sec-websocket-protocol.  NoToken: the header has
\* fewer than three elements (parts[2] is undefined).
NoToken == [sig |-> "none", nbf |-> 0, exp |-> 0]
BadSig == [sig |-> "bad", nbf |-> 0, exp |-> MaxTime + 1]
Tokens ==
    {NoToken, BadSig} \cup [sig : {"good"}, nbf : {0, MaxTime}, exp : {1, MaxTime + 1}]

\* ------------------------------------------------------------------ frames
\* Outbound frames, one record shape for the three kinds:
\*   res : id, ok, body = data or error
\*   chat: role, body = text
\*   evt : role = event name, body = data
Res(id, ok, body) ==
    [type |-> "res", id |-> id, ok |-> ok, role |-> "-", body |-> body]
Chat(role, text) ==
    [type |-> "chat", id |-> "-", ok |-> TRUE, role |-> role, body |-> text]
Evt(name, data) ==
    [type |-> "evt", id |-> "-", ok |-> TRUE, role |-> name, body |-> data]

\* Inbound frames as JSON.parse sees them.  type "garbage": JSON.parse
\* throws; type "other": parses, msg?.type is not "cmd" (null included).
\* id "none" / name "none": the property is absent from the object.
CmdNames == {"getPageInfo", "setFeature", "sendChat", "bogus"}
KnownNames == {"getPageInfo", "setFeature", "sendChat"}
ArgsOf(name) ==
    CASE name = "getPageInfo" -> {"", "t1", "t2"}          \* args.tabId
      [] name = "setFeature"  -> {"offlineMode:true", "offlineMode:false", "other"}
      [] name = "sendChat"    -> {"hello"}                 \* args.text
      [] OTHER                -> {"-"}
InFrame(type, id, name, arg) ==
    [type |-> type, id |-> id, name |-> name, arg |-> arg]
\* The frames tried: the malformed ones, every command under id "i1", and
\* under a second id the two commands that need no argument from the window.
Frames ==
    {InFrame("garbage", "none", "none", "-"), InFrame("other", "none", "none", "-"),
     InFrame("cmd", "none", "bogus", "-"), InFrame("cmd", "i1", "none", "-")}
    \cup UNION {{InFrame("cmd", "i1", n, a) : a \in ArgsOf(n)} : n \in CmdNames}
    \cup {InFrame("cmd", "i2", n, a) : <<n, a>> \in {<<"sendChat", "hello">>, <<"bogus", "-">>}}

\* A command: the socket it came on, msg.id, msg.name, and what its
\* handler holds across the await (the Tab, the value, the text).
NoCmd == [conn |-> 0, id |-> "none", name |-> "none", val |-> "-"]
Cmd(c, msg, val) == [conn |-> c, id |-> msg.id, name |-> msg.name, val |-> val]

\* What the latest step finished: the command and how its handling ended
\* ("ok", "unknown": the default branch, "raised": the catch block, with
\* the message of what was thrown).
NoDone == [cmd |-> NoCmd, outcome |-> "none", err |-> "-"]
Done(cmd, outcome, err) == [cmd |-> cmd, outcome |-> outcome, err |-> err]

NoHs == [conn |-> 0, verify |-> "-"]

\* The frame a step received: the socket and the frame.
NoInbound == [conn |-> 0, frame |-> InFrame("-", "none", "none", "-")]

VARIABLES
    \* BridgeServer fields
    httpServer,       \* BOOLEAN: this.httpServer is not null
    wsServer,         \* BOOLEAN: this.wsServer is not null
    heartbeatTimer,   \* BOOLEAN: this.heartbeatTimer is not null
    clients,          \* this.clients
    connectionAlive,  \* this.connectionAlive: "undefined" | "true" | "false"
    \* the runtime behind the fields
    liveServers,      \* listening servers created and not closed
    liveTimers,       \* interval timers set and not cleared
    pingSecEnv,       \* process.env.BRIDGE_PING_SEC
    lastOnline,       \* registerSystemEvents: "null" | "true" | "false"
    ttlEnv,           \* process.env.BRIDGE_TOKEN_TTL_SEC
    clock,            \* Math.floor(Date.now() / 1000)
    issued,           \* the proto string of the latest QR payload, <<>> before any
    offered,          \* sec-websocket-protocol of the upgrade request on its way
    consume,          \* the runs of Streamer.consume: their locals and what they produced
    prompt,           \* the latest prepareMessagesWithContext call: its inputs and result
    switching,        \* the setOfflineMode call in progress and the modelName fields
    \* sockets
    readyState,       \* "NEW" (not connected yet) | "OPEN" | "CLOSING" | "CLOSED"
    closeCode,        \* 0 while no close has begun
    listening,        \* the message/close/pong listeners are attached
    sincePong,        \* heartbeat ticks seen since admission or the last pong
    \* window
    tabs, activeTab,
    \* local UI: the last "bridge-connected" value sent, "unset" before any
    uiBridgeConnected,
    \* commands suspended on an await
    pending,
    \* the latest step:
    \*   call      "start:..." / "stop:..." with what this.httpServer was,
    \*             "tick" for the heartbeat callback, else "-"
    \*   inbound   the frame that arrived
    \*   hshake    the handshake decided: [conn, what jwt.verify did]
    \*   done      the command whose handling ended
    \*   sendCalls the this.send(ws, payload) calls: <<[to, frame]>>
    \*   emitted   the objects passed to emitAll, in order
    \*   threw     the sockets whose send threw inside emitAll
    \*   pinged    the sockets on which ws.ping() was called
    \*   wire      per socket, the frames put on the wire, in order
    out

VARIABLES
    \* MessageStore fields
    messages,         \* this.messages: the conversation log
    streamingIndex,   \* this.streamingIndex, 0-based; -1 stands for null
    \* what the calls since the latest beginStream passed, while nothing else
    \* touched the log: [phase, before, text, n]
    streamed,
    \* the latest step of the conversation side:
    \*   op        the operation called, "-" before any
    \*   arg       the sequence passed to setAll, else <<>>
    \*   notified  the emitToRenderer() calls it made
    \*   raised    it threw
    \*   slotWas   streamingIndex when beginStream was called, else -1
    \*   enabled   the argument of setOfflineMode
    \*   ret       what setOfflineMode resolved to: "true" / "false", else "-"
    llmOut,
    \* providers
    modelManager,     \* the ModelManager's fields
    client,           \* the LLMClient's copies of them (syncFromManager)
    hasKey,           \* the API key of the online provider is in the environment
    appleAIModel,     \* global.__appleAIModel is set
    initPending,      \* the constructor's modelManager.init() has not finished
    \* LLMClient, the conversation turns
    lastToolResult,          \* "null", or the tool whose result it holds
    didAppleLocaleFallback,
    fallbackPending,  \* handleStreamError's detached fallback is at its await
    \* the latest turn: what it was asked, what it found and what it did
    \*   n            the turns started so far
    \*   kind         the user text
    \*   tab          the active tab when the turn ran
    \*   staleTool    lastToolResult was set when the turn began
    \*   gen          generation calls made (main, follow-up, retry)
    \*   tools        tool invocations
    \*   toolReturned a tool returned its result (setLast was called)
    \*   followups    follow-up calls; retries: fallback retries
    \*   localeError  the main call ended with an unsupported-locale error
    \*   mainEmpty    the main call returned with no text
    \*   ended        how the turn ended
    turn

storeVars == <<messages, streamingIndex, streamed>>
modelVars == <<modelManager, client, hasKey, appleAIModel, initPending>>
turnVars == <<lastToolResult, didAppleLocaleFallback, fallbackPending, turn>>
llmOther == <<llmOut, modelVars, turnVars>>
llmVars == <<storeVars, llmOther>>

bridgeVars == <<httpServer, wsServer, heartbeatTimer, clients, connectionAlive,
                liveServers, liveTimers>>
envVars == <<pingSecEnv, lastOnline, ttlEnv, clock, issued, offered, consume, prompt, switching>>
sockVars == <<readyState, closeCode, listening, sincePong>>
winVars == <<tabs, activeTab>>
progVars == <<bridgeVars, envVars, sockVars, winVars, uiBridgeConnected, pending>>
vars == <<progVars, llmVars, out>>

NoWire == [c \in Conn |-> <<>>]

NoOut ==
    [call |-> "-", inbound |-> NoInbound, hshake |-> NoHs, done |-> NoDone,
     sendCalls |-> <<>>, emitted |-> <<>>, threw |-> {}, pinged |-> {},
     wire |-> NoWire]

\* ------------------------------------------------------------ ModelManager
\* provider: "apple" or "online" (the base online provider); model: "null",
\* "apple" or "online"; appleUnavailableReason: "null" or the reason text.
ReasonNotInstalled == "unavailable-or-not-installed"
ReasonLoadFailed == "load-failed"

\* What checkAppleAvailability() resolves to.
Availabilities ==
    {[available |-> TRUE, reason |-> ""],
     [available |-> FALSE, reason |-> ReasonNotInstalled]}

\* new ModelManager() with OFFLINE_MODE / LLM_PROVIDER=apple in the
\* environment (off) or not.
NewModelManager(off) ==
    [provider |-> IF off THEN "apple" ELSE "online",
     model |-> "null",
     offlineMode |-> off,
     appleAvailabilityChecked |-> FALSE,
     appleAvailable |-> FALSE,
     appleUnavailableReason |-> "null"]

\* The LLMClient fields set by its constructor.
NewClient(off) ==
    [provider |-> IF off THEN "apple" ELSE "online",
     model |-> "null",
     offlineMode |-> off,
     appleAvailable |-> FALSE,
     appleUnavailableReason |-> "null"]

\* getModelName(): null for the on-device provider, else LLM_MODEL or the
\* default model of the online provider ("id").
getModelName(provider) == IF provider = "apple" THEN "null" ELSE "id"

\* No setOfflineMode call is suspended; both constructors have set
\* this.modelName = this.getModelName().
NewSwitching(off) ==
    [phase |-> "idle",
     mmName |-> getModelName(NewModelManager(off).provider),
     clName |-> getModelName(NewClient(off).provider)]

InitModel(off, key) ==
    /\ modelManager = NewModelManager(off)
    /\ client = NewClient(off)
    /\ switching = NewSwitching(off)
    /\ hasKey = key
    /\ appleAIModel = FALSE
    /\ initPending = TRUE

\* initializeModel().  avail: what checkAppleAvailability() resolves to if it
\* is called; created: createAppleLanguageModel() returns (the cached global
\* model, or a new one) rather than throws.
initializeModel(mm, key, avail, created) ==
    IF mm.provider = "apple"
       THEN LET m1 == IF ~mm.appleAvailabilityChecked
                         THEN [mm EXCEPT
                                 !.appleAvailable = avail.available,
                                 !.appleUnavailableReason =
                                     IF avail.reason = "" THEN "null" ELSE avail.reason,
                                 !.appleAvailabilityChecked = TRUE]
                         ELSE mm
            IN  IF ~m1.appleAvailable
                   THEN [m1 EXCEPT !.model = "null"]
                   ELSE IF created
                           THEN [m1 EXCEPT !.model = "apple"]
                           ELSE [m1 EXCEPT !.model = "null",
                                           !.appleAvailable = FALSE,
                                           !.appleUnavailableReason = ReasonLoadFailed]
       ELSE IF ~key
               THEN [mm EXCEPT !.model = "null"]
               ELSE [mm EXCEPT !.model = "online"]

\* setOfflineMode(enabled) past the early return: the switch to the
\* on-device provider with the fall back to the online one when no model
\* comes out of it, or the switch to the online provider.
switchOfflineMode(mm, enabled, key, avail, created) ==
    IF enabled
       THEN LET m1 == initializeModel([mm EXCEPT !.provider = "apple"], key, avail, created)
            IN  IF m1.model = "null"
                   THEN [mm |-> [initializeModel([m1 EXCEPT !.provider = "online"],
                                                 key, avail, created)
                                   EXCEPT !.offlineMode = FALSE],
                         ret |-> FALSE]
                   ELSE [mm |-> [m1 EXCEPT !.offlineMode = TRUE], ret |-> TRUE]
       ELSE [mm |-> [initializeModel([mm EXCEPT !.provider = "online"], key, avail, created)
                       EXCEPT !.offlineMode = FALSE],
             ret |-> FALSE]

\* ModelManager.setOfflineMode(enabled): the fields after it and the value
\* it resolves to.  if (this.offlineMode === enabled) return this.offlineMode
setOfflineMode(mm, enabled, key, avail, created) ==
    IF mm.offlineMode = enabled
       THEN [mm |-> mm, ret |-> mm.offlineMode]
       ELSE switchOfflineMode(mm, enabled, key, avail, created)

\* syncFromManager()
syncFromManager(mm) ==
    [provider |-> mm.provider,
     model |-> mm.model,
     offlineMode |-> mm.offlineMode,
     appleAvailable |-> mm.model # "null",
     appleUnavailableReason |-> mm.appleUnavailableReason]

\* ---------------------------------------------------------------- LLMClient
\* The user texts a turn is asked with, by what the code tells apart:
\* detectWhatPageQuestion matches; a URL with open / visit / go to /
\* navigate; anything else.
TextKinds == {"whatPage", "openUrl", "plain"}

MaxTurns == 2

NoTurn ==
    [n |-> 0, kind |-> "-", staleTool |-> FALSE, gen |-> 0, tools |-> 0,
     followups |-> 0, retries |-> 0, localeError |-> FALSE, mainEmpty |-> FALSE,
     toolReturned |-> FALSE, tab |-> NoTab, ended |-> "-"]

InitTurn ==
    /\ lastToolResult = "null"
    /\ didAppleLocaleFallback = FALSE
    /\ fallbackPending = FALSE
    /\ turn = NoTurn

\* ------------------------------------------------------------ MessageStore
\* Bounds of the conversation side.
MaxLog == 2
MaxText == 3

\* A message text is the sequence of the pieces it was put together from, so
\* that concatenation is \o and the empty text is <<>>.  QrPiece stands for
\* the data url of a QR image, the text "data:image/png;base64,...".
QrPiece == "data:image/png;base64"
QrText == <<"![](", QrPiece, ")">>
Hi == <<"hi">>
Chunks == {<<"a">>, <<"b">>}

Msg(role, content) == [role |-> role, content |-> content]

\* m.content.includes("data:image/png;base64")
IsQrContent(content) == \E i \in 1..Len(content) : content[i] = QrPiece

\* The message sequences handed to setAll.
Logs ==
    LET M == {Msg("user", Hi), Msg("assistant", <<"a">>), Msg("assistant", QrText)}
    IN  {<<>>} \cup {<<m>> : m \in M} \cup {<<m, n>> : m \in M, n \in M}

NoRun == [phase |-> "none", before |-> <<>>, text |-> <<>>, n |-> 0]

NoLlmOut ==
    [op |-> "-", arg |-> <<>>, notified |-> 0, raised |-> FALSE, slotWas |-> -1,
     enabled |-> FALSE, ret |-> "-"]

InitStore ==
    /\ messages = <<>>
    /\ streamingIndex = -1
    /\ streamed = NoRun
    /\ llmOut = NoLlmOut

\* setAll that keeps what the log held and adds the argument to it.
setAllAppending(log, msgs) == log \o msgs

\* setAll(messages): this.messages = messages
setAll(log, msgs) == msgs

\* this.messages.push({ role, content })
push(log, role, content) == Append(log, Msg(role, content))

\* beginStream that reuses the open slot: the message at streamingIndex is
\* replaced by the new first chunk.
beginStreamOverwriting(log, idx, firstChunk) ==
    IF idx >= 0 /\ idx < Len(log)
       THEN [log EXCEPT ![idx + 1] = Msg("assistant", firstChunk)]
       ELSE push(log, "assistant", firstChunk)

\* beginStream that puts the new message in front of the log.
beginStreamAtFront(log, idx, firstChunk) == <<Msg("assistant", firstChunk)>> \o log

\* beginStream(firstChunk): the log after the push; the slot is the index
\* the push fills, this.messages.length before it.
beginStream(log, idx, firstChunk) == push(log, "assistant", firstChunk)

\* appendStream that replaces the content by the chunk.
appendStreamReplacing(log, idx, chunk) ==
    [log EXCEPT ![idx + 1] = Msg("assistant", chunk)]

\* appendStream(chunk) with a slot open on an existing message:
\* prev = String(messages[idx].content || ""); messages[idx] = prev + chunk
appendStream(log, idx, chunk) ==
    [log EXCEPT ![idx + 1] = Msg("assistant", log[idx + 1].content \o chunk)]

RECURSIVE filterQr(_)
\* filter(m => keep unless assistant with a string content that includes
\* the data url)
filterQr(log) ==
    IF log = <<>> THEN <<>>
    ELSE LET m == Head(log)
             rest == filterQr(Tail(log))
         IN  IF m.role = "assistant" /\ IsQrContent(m.content)
                THEN rest
                ELSE <<m>> \o rest

\* removeQrMessages that drops nothing.
removeQrMessagesKeeping(log) == setAll(log, log)

\* LLMClient.removeQrMessages(): setAll(getAll().filter(...))
removeQrMessages(log) == setAll(log, filterQr(log))

\* The bridge before start(), whatever BRIDGE_PING_SEC is.
InitBridgeCore ==
    /\ httpServer = FALSE
    /\ wsServer = FALSE
    /\ heartbeatTimer = FALSE
    /\ clients = {}
    /\ connectionAlive = [c \in Conn |-> "undefined"]
    /\ liveServers = 0
    /\ liveTimers = 0
    /\ readyState = [c \in Conn |-> "NEW"]
    /\ closeCode = [c \in Conn |-> 0]
    /\ listening = [c \in Conn |-> FALSE]
    /\ sincePong = [c \in Conn |-> 0]
    /\ tabs = {}
    /\ activeTab = NoTab
    /\ uiBridgeConnected = "unset"
    /\ pending = {}
    /\ out = NoOut

InitBridge ==
    /\ InitBridgeCore
    /\ pingSecEnv \in PingSecEnv

\* registerSystemEvents: let lastOnline: boolean | null = null; no pairing
\* credential issued yet, the default lifetime.
InitPairing ==
    /\ clock = 0
    /\ issued = <<>>
    /\ offered = <<>>

\* No prompt has been assembled.
NoPrompt ==
    [provider |-> "-", url |-> "null", title |-> "null", text |-> <<>>, log |-> <<>>,
     msgs |-> <<>>]
InitPrompt == prompt = NoPrompt

\* The generation streams that may be consumed side by side.
NumStreams == 2
Streams == 1..NumStreams

\* A run of Streamer.consume: phase "idle" (not called yet), "run" (in the
\* for-await loop), "done" (returned), "threw" (left by an exception); first:
\* its local of that name; text: finalText; sent: the texts of the frames its
\* chunks were mirrored as; slot: the index its beginStream pushed at.
NoConsume == [phase |-> "idle", first |-> TRUE, text |-> <<>>, sent |-> <<>>, slot |-> -1]

\* No generation stream is being consumed.
InitConsume == consume = [s \in Streams |-> NoConsume]

InitSystem ==
    /\ lastOnline = "null"
    /\ ttlEnv = "unset"
    /\ InitPairing
    /\ InitConsume
    /\ InitPrompt

\* The state after construction, with the environment the bridge is
\* studied in: online mode and an API key.
Init ==
    /\ InitBridge
    /\ InitSystem
    /\ InitStore
    /\ InitModel(FALSE, TRUE)
    /\ InitTurn

\* ------------------------------------------------------------ start / stop
\* Number(process.env.BRIDGE_PING_SEC || 30)
PingSec ==
    CASE pingSecEnv = "unset" -> DEFAULT_PING_SEC
      [] pingSecEnv = "0"     -> 0
      [] pingSecEnv = "-5"    -> -5
      [] pingSecEnv = "5"     -> 5
      [] pingSecEnv = "45"    -> 45

Max(a, b) == IF a >= b THEN a ELSE b
Min(a, b) == IF a <= b THEN a ELSE b

\* A period that is the configured value as it stands.
HeartbeatPeriodUnclamped == PingSec

\* seconds between two heartbeat ticks: Math.max(10, pingSec)
HeartbeatPeriod == Max(MIN_PING_SEC, PingSec)

\* start() with no guard on this.httpServer: a second server and timer.
StartUnguarded ==
    /\ httpServer' = TRUE
    /\ wsServer' = TRUE
    /\ liveServers' = Min(liveServers + 1, 2)
    /\ IF PingSec > 0
          THEN heartbeatTimer' = TRUE /\ liveTimers' = Min(liveTimers + 1, 2)
          ELSE UNCHANGED <<heartbeatTimer, liveTimers>>
    /\ UNCHANGED <<clients, connectionAlive, envVars, llmVars, sockVars, winVars,
                   uiBridgeConnected, pending>>
    /\ out' = [NoOut EXCEPT !.call = IF httpServer THEN "start:running" ELSE "start:stopped"]

\* start(): if (this.httpServer) return; create the two servers, listen,
\* and set the heartbeat interval when pingSec > 0.
Start ==
    /\ IF httpServer
          THEN UNCHANGED <<httpServer, wsServer, heartbeatTimer, liveServers, liveTimers>>
          ELSE /\ httpServer' = TRUE
               /\ wsServer' = TRUE
               /\ liveServers' = liveServers + 1
               /\ IF PingSec > 0
                     THEN heartbeatTimer' = TRUE /\ liveTimers' = liveTimers + 1
                     ELSE UNCHANGED <<heartbeatTimer, liveTimers>>
    /\ UNCHANGED <<clients, connectionAlive, envVars, llmVars, sockVars, winVars,
                   uiBridgeConnected, pending>>
    /\ out' = [NoOut EXCEPT !.call = IF httpServer THEN "start:running" ELSE "start:stopped"]

\* stop().  WebSocketServer.close() and http.Server.close() stop accepting;
\* sockets already connected stay as they are (ws 8, the version whose
\* typings carry WebSocket.RawData used by onMessage).  Neither call throws
\* on a server that is not running, and ?. skips the call when the handle
\* is null.
Stop ==
    /\ liveServers' = IF httpServer THEN liveServers - 1 ELSE liveServers
    /\ liveTimers' = IF heartbeatTimer THEN liveTimers - 1 ELSE liveTimers
    /\ heartbeatTimer' = FALSE
    /\ wsServer' = FALSE
    /\ httpServer' = FALSE
    /\ clients' = {}
    /\ UNCHANGED <<connectionAlive, envVars, llmVars, sockVars, winVars, uiBridgeConnected, pending>>
    /\ out' = [NoOut EXCEPT !.call = IF httpServer THEN "stop:running" ELSE "stop:stopped"]

\* ------------------------------------------------------------- transport
\* ws.send(data) on a socket: the frame goes on the wire when the socket is
\* OPEN and is discarded otherwise.
WireTo(c, rs, frames) ==
    [x \in Conn |-> IF x = c /\ rs[c] = "OPEN" THEN frames ELSE <<>>]

WireCat(w1, w2) == [c \in Conn |-> w1[c] \o w2[c]]

\* emitAll that stops at the first socket whose send throws: the sockets
\* after it (in iteration order) get nothing.
emitAllAborting(cl, rs, f, fail) ==
    [c \in Conn |->
        IF c \in cl /\ rs[c] = "OPEN" /\ ~(\E x \in fail : x \in cl /\ rs[x] = "OPEN" /\ x <= c)
           THEN <<f>> ELSE <<>>]

\* emitAll(obj): for (const c of this.clients) if (c.readyState === OPEN)
\* { try { c.send(s) } catch {} }.  cl, rs: the set and the states at the
\* moment of the call; fail: the sockets whose send throws this time.
emitAll(cl, rs, f, fail) ==
    [c \in Conn |->
        IF c \in cl /\ rs[c] = "OPEN" /\ c \notin fail THEN <<f>> ELSE <<>>]

\* Several emitAll calls in a row.
RECURSIVE emitEach(_, _, _, _)
emitEach(cl, rs, frames, fail) ==
    IF frames = <<>> THEN NoWire
    ELSE WireCat(emitAll(cl, rs, Head(frames), fail), emitEach(cl, rs, Tail(frames), fail))

emitChat(cl, rs, role, text, fail) == emitAll(cl, rs, Chat(role, text), fail)
emitEvent(cl, rs, name, data, fail) == emitAll(cl, rs, Evt(name, data), fail)
broadcastActiveTab(cl, rs, tabId, fail) == emitEvent(cl, rs, "activeTab", tabId, fail)

\* The sockets whose send may throw in one broadcast: none, or one of those
\* the broadcast reaches.
FailSets(cl, rs) == {{}} \cup {{c} : c \in {x \in cl : rs[x] = "OPEN"}}

\* ---------------------------------------------------------------- handshake
\* jsonwebtoken's verify(token, secret), by the error it throws ("ok": it
\* returns).  The checks run in this order: the token is there, the
\* signature, nbf (nbf > now), exp (now >= exp).
JwtVerify(tok, now) ==
    CASE tok = NoToken    -> "JsonWebTokenError: jwt must be provided"
      [] tok.sig # "good" -> "JsonWebTokenError: invalid signature"
      [] tok.nbf > now    -> "NotBeforeError"
      [] now >= tok.exp   -> "TokenExpiredError"
      [] OTHER            -> "ok"

\* authOk that lets an expired token through.
authOkIgnoringExp(tok, now) == JwtVerify(tok, now) \in {"ok", "TokenExpiredError"}

\* authOk(req, ws): true when jwt.verify returns, false (after
\* ws.close(4001, "unauthorized")) when it throws.
authOk(tok, now) == JwtVerify(tok, now) = "ok"

\* wsServer.on("connection", ...).  tok: the token offered; now: the clock
\* when the handshake is verified.  Sockets are numbered in the order they
\* connect.
Connection(c, tok, now) ==
    /\ wsServer
    /\ readyState[c] = "NEW"
    /\ \A x \in Conn : x < c => readyState[x] # "NEW"
    /\ IF ~authOk(tok, now)
          THEN /\ readyState' = [readyState EXCEPT ![c] = "CLOSING"]
               /\ closeCode' = [closeCode EXCEPT ![c] = UNAUTHORIZED]
               /\ UNCHANGED <<clients, connectionAlive, listening, sincePong,
                              uiBridgeConnected, messages, streamed>>
               /\ out' = [NoOut EXCEPT !.hshake = [conn |-> c, verify |-> JwtVerify(tok, now)]]
          ELSE /\ readyState' = [readyState EXCEPT ![c] = "OPEN"]
               /\ UNCHANGED closeCode
               /\ clients' = clients \cup {c}
               /\ connectionAlive' = [connectionAlive EXCEPT ![c] = "true"]
               /\ listening' = [listening EXCEPT ![c] = TRUE]
               /\ sincePong' = [sincePong EXCEPT ![c] = 0]
               /\ messages' = removeQrMessages(messages)
               /\ streamed' = NoRun
               /\ uiBridgeConnected' = "true"
               /\ IF activeTab # NoTab
                     THEN \E fail \in FailSets(clients', readyState') :
                             out' = [NoOut EXCEPT
                                       !.hshake = [conn |-> c, verify |-> JwtVerify(tok, now)],
                                       !.emitted = <<Evt("activeTab", activeTab)>>,
                                       !.threw = fail,
                                       !.wire = broadcastActiveTab(clients', readyState',
                                                                   activeTab, fail)]
                     ELSE out' = [NoOut EXCEPT
                                    !.hshake = [conn |-> c, verify |-> JwtVerify(tok, now)]]
    /\ UNCHANGED <<httpServer, wsServer, heartbeatTimer, liveServers, liveTimers,
                   envVars, streamingIndex, llmOther, winVars, pending>>

\* ------------------------------------------------------- socket life cycle
\* ws.on("pong", () => this.connectionAlive.set(ws, true))
Pong(c) ==
    /\ readyState[c] = "OPEN"
    /\ listening[c]
    /\ connectionAlive' = [connectionAlive EXCEPT ![c] = "true"]
    /\ sincePong' = [sincePong EXCEPT ![c] = 0]
    /\ UNCHANGED <<httpServer, wsServer, heartbeatTimer, clients, liveServers,
                   liveTimers, envVars, llmVars, readyState, closeCode, listening, winVars,
                   uiBridgeConnected, pending>>
    /\ out' = NoOut

\* The peer starts a closing handshake: the socket is CLOSING until the
\* transport goes down; no event reaches the server yet.
PeerClose(c) ==
    /\ readyState[c] = "OPEN"
    /\ readyState' = [readyState EXCEPT ![c] = "CLOSING"]
    /\ closeCode' = [closeCode EXCEPT ![c] = NORMAL]
    /\ UNCHANGED <<bridgeVars, envVars, llmVars, listening, sincePong, winVars,
                   uiBridgeConnected, pending>>
    /\ out' = NoOut

\* ws.on("close", ...): this.clients.delete(ws);
\* if (this.clients.size === 0) this.notifyRendererConnected(false)
OnClose(c) ==
    /\ clients' = clients \ {c}
    /\ uiBridgeConnected' = IF clients' = {} THEN "false" ELSE uiBridgeConnected

\* The transport of socket c goes down (end of a closing handshake, a
\* terminate, a network failure): the socket is CLOSED and emits "close".
\* Nothing reads the WeakMap entry of a socket that has closed; the entry
\* goes with the socket.
SocketClosed(c) ==
    /\ readyState[c] \in {"OPEN", "CLOSING"}
    /\ readyState' = [readyState EXCEPT ![c] = "CLOSED"]
    /\ closeCode' = [closeCode EXCEPT ![c] = IF @ = 0 THEN ABNORMAL ELSE @]
    /\ IF listening[c] THEN OnClose(c) ELSE UNCHANGED <<clients, uiBridgeConnected>>
    /\ connectionAlive' = [connectionAlive EXCEPT ![c] = "undefined"]
    /\ sincePong' = [sincePong EXCEPT ![c] = 0]
    /\ UNCHANGED <<httpServer, wsServer, heartbeatTimer, liveServers,
                   liveTimers, envVars, llmVars, listening, winVars, pending>>
    /\ out' = NoOut

\* ---------------------------------------------------------------- heartbeat
\* A sweep that pings but never marks the flag false.
ProbedFlagKept(c) == connectionAlive[c]

\* The flag the sweep leaves on a socket it probes: connectionAlive.set(ws, false)
ProbedFlag(c) == "false"

\* A sweep that evicts nobody.
EvictedNobody == {}

\* A sweep that terminates every member, whatever its flag.
EvictedEveryMember == clients

\* The sockets the sweep terminates: those whose flag is false.
Evicted == {c \in clients : connectionAlive[c] = "false"}

\* The setInterval callback.  ws.terminate() destroys the transport and
\* leaves the socket CLOSING until "close" is emitted.  Deleting from the
\* Set while iterating it skips no element.
HeartbeatTick ==
    /\ liveTimers > 0
    /\ clients' = clients \ Evicted
    /\ connectionAlive' =
          [c \in Conn |-> IF c \in clients \ Evicted THEN ProbedFlag(c) ELSE connectionAlive[c]]
    /\ readyState' =
          [c \in Conn |-> IF c \in Evicted /\ readyState[c] # "CLOSED"
                             THEN "CLOSING" ELSE readyState[c]]
    /\ closeCode' =
          [c \in Conn |-> IF c \in Evicted /\ closeCode[c] = 0 THEN ABNORMAL ELSE closeCode[c]]
    /\ sincePong' =
          [c \in Conn |-> IF c \in clients THEN Min(sincePong[c] + 1, 2) ELSE sincePong[c]]
    /\ UNCHANGED <<httpServer, wsServer, heartbeatTimer, liveServers, liveTimers,
                   envVars, llmVars, listening, winVars, uiBridgeConnected, pending>>
    /\ out' = [NoOut EXCEPT !.call = "tick", !.pinged = clients \ Evicted]

\* ------------------------------------------------------------------- window
\* createTab(url) followed by switchActiveTab(tab.id)
OpenTab(t) ==
    /\ t \notin tabs
    /\ tabs' = tabs \cup {t}
    /\ activeTab' = t
    /\ UNCHANGED <<bridgeVars, envVars, llmVars, sockVars, uiBridgeConnected, pending>>
    /\ out' = NoOut

\* closeTab(id): the tab goes; when it was the active one, a remaining tab
\* becomes active.
CloseTab(t) ==
    /\ t \in tabs
    /\ tabs' = tabs \ {t}
    /\ activeTab' = IF activeTab # t THEN activeTab
                    ELSE IF tabs' = {} THEN NoTab ELSE CHOOSE x \in tabs' : TRUE
    /\ UNCHANGED <<bridgeVars, envVars, llmVars, sockVars, uiBridgeConnected, pending>>
    /\ out' = NoOut

\* window.getTab(id)
getTab(id) == IF id \in tabs THEN id ELSE NoTab

\* ----------------------------------------------------------------- commands
\* this.send(ws, payload): one call per element; the frame goes on the wire
\* when the socket is OPEN.
SendCalls(c, frames) == [i \in 1..Len(frames) |-> [to |-> c, frame |-> frames[i]]]

\* The default branch answering ok.
ReplyUnknownAsOk(msg) == <<Res(msg.id, TRUE, "{}")>>

\* default: this.send(ws, { id: msg.id, ok: false, error: "Unknown command" })
ReplyUnknown(msg) == <<Res(msg.id, FALSE, "Unknown command")>>

\* The catch block answering with a fixed text instead of the message.
ReplyCaughtGeneric(msg, e) == <<Res(msg.id, FALSE, "error")>>

\* catch (e): this.send(ws, { id: msg.id, ok: false, error: String(e?.message || e || "error") })
ReplyCaught(msg, e) == <<Res(msg.id, FALSE, e)>>

\* A success branch that answers, then lets the catch block answer again.
ReplyOkThenCaught(msg, data) == <<Res(msg.id, TRUE, data), Res(msg.id, FALSE, "error")>>

\* this.send(ws, { id: msg.id, ok: true, data }), the last send of a branch
\* that ran to its end
ReplyOk(msg, data) == <<Res(msg.id, TRUE, data)>>

\* getPageInfo(tabId): the tab named by a non-empty tabId, else the active
\* tab; NoTab: throw new Error("No tab")
getPageInfoTab(tabId) == IF tabId # "" THEN getTab(tabId) ELSE activeTab

\* The data of a getPageInfo response and the text mirrored as a ChatFrame.
PageData(tab) == "page:" \o tab
PageChat(tab) == "summary:" \o tab

\* Frames reach a socket while its transport is up at both ends: OPEN, or
\* CLOSING because this side began the close (4001) and the peer has not
\* answered yet.
CanReceive(c) ==
    \/ readyState[c] = "OPEN"
    \/ readyState[c] = "CLOSING" /\ closeCode[c] = UNAUTHORIZED

\* onMessage: JSON.parse(String(raw)) does not throw and msg?.type === "cmd"
IsCmd(f) == f.type = "cmd"

\* The record of a step in which a handler ends: its send calls, and the
\* objects it broadcast before (pre) and after (post) them.
Finish(cmd, outcome, err, frames, pre, post, fail) ==
    [NoOut EXCEPT
       !.done = Done(cmd, outcome, err),
       !.sendCalls = SendCalls(cmd.conn, frames),
       !.emitted = pre \o post,
       !.threw = IF pre \o post = <<>> THEN {} ELSE fail,
       !.wire = WireCat(WireCat(emitEach(clients, readyState, pre, fail),
                                WireTo(cmd.conn, readyState, frames)),
                        emitEach(clients, readyState, post, fail))]

\* A handler may suspend on an await when there is room for one more.
CanSuspend(cmd) == Cardinality(pending) < MaxPending /\ cmd \notin pending

\* handleCmd up to its first suspension (or to its end, when it does not
\* suspend), for a frame onMessage passed on.
\* llm.setOfflineMode returns without suspending when the mode asked for is
\* the mode the provider is in, and suspends otherwise: both are possible.
handleCmd(c, f, in) ==
    CASE f.name = "getPageInfo" ->
           LET tab == getPageInfoTab(f.arg) IN
           IF tab = NoTab
              THEN /\ out' = [Finish(Cmd(c, f, "-"), "raised", "No tab",
                                     ReplyCaught(f, "No tab"), <<>>, <<>>, {})
                                EXCEPT !.inbound = in]
                   /\ UNCHANGED pending
              ELSE /\ CanSuspend(Cmd(c, f, tab))
                   /\ pending' = pending \cup {Cmd(c, f, tab)}
                   /\ out' = [NoOut EXCEPT !.inbound = in]
      [] f.name = "setFeature" ->
           IF f.arg \in {"offlineMode:true", "offlineMode:false"}
              THEN LET value == IF f.arg = "offlineMode:true" THEN "true" ELSE "false" IN
                   \/ \E fail \in FailSets(clients, readyState) :
                         /\ out' = [Finish(Cmd(c, f, value), "ok", "-", ReplyOk(f, "{}"),
                                           <<Evt("featureState", value)>>, <<>>, fail)
                                      EXCEPT !.inbound = in]
                         /\ UNCHANGED pending
                   \/ /\ CanSuspend(Cmd(c, f, value))
                      /\ pending' = pending \cup {Cmd(c, f, value)}
                      /\ out' = [NoOut EXCEPT !.inbound = in]
              ELSE /\ out' = [Finish(Cmd(c, f, "-"), "ok", "-", ReplyOk(f, "{}"),
                                     <<>>, <<>>, {})
                                EXCEPT !.inbound = in]
                   /\ UNCHANGED pending
      [] f.name = "sendChat" ->
           \* handleCmd echoes the text, then sendChatMessage (after adding
           \* it to the log) echoes it again.  sendChatMessage then either
           \* suspends (the connectivity probe, the provider switch, the
           \* stream), or, with the on-device provider selected and not
           \* available, reports that to the sidebar and returns in the
           \* same turn; it raises when that report throws.
           \E fail \in FailSets(clients, readyState) :
              \/ /\ CanSuspend(Cmd(c, f, f.arg))
                 /\ pending' = pending \cup {Cmd(c, f, f.arg)}
                 /\ out' = [NoOut EXCEPT
                              !.inbound = in,
                              !.emitted = <<Chat("user", f.arg), Chat("user", f.arg)>>,
                              !.threw = fail,
                              !.wire = WireCat(emitChat(clients, readyState, "user", f.arg, fail),
                                               emitChat(clients, readyState, "user", f.arg, fail))]
              \/ /\ \E raised \in BOOLEAN :
                       out' = [Finish(Cmd(c, f, f.arg),
                                      IF raised THEN "raised" ELSE "ok",
                                      IF raised THEN "Object has been destroyed" ELSE "-",
                                      IF raised THEN ReplyCaught(f, "Object has been destroyed")
                                                ELSE ReplyOk(f, "{}"),
                                      <<Chat("user", f.arg), Chat("user", f.arg)>>, <<>>, fail)
                                 EXCEPT !.inbound = in]
                 /\ UNCHANGED pending
      [] OTHER ->
           /\ out' = [Finish(Cmd(c, f, "-"), "unknown", "-", ReplyUnknown(f), <<>>, <<>>, {})
                        EXCEPT !.inbound = in]
           /\ UNCHANGED pending

\* A frame arrives on socket c.  On a socket that was admitted:
\* ws.on("message", raw => this.onMessage(ws, raw)), and onMessage passes a
\* command on to handleCmd.  On a socket that was rejected no listener is
\* attached and the frame goes nowhere.
OnMessage(c, f) ==
    /\ CanReceive(c)
    /\ IF listening[c] /\ IsCmd(f)
          THEN handleCmd(c, f, [conn |-> c, frame |-> f])
          ELSE /\ out' = [NoOut EXCEPT !.inbound = [conn |-> c, frame |-> f]]
               /\ UNCHANGED pending
    /\ UNCHANGED <<bridgeVars, envVars, llmVars, sockVars, winVars, uiBridgeConnected>>

\* handleCmd, getPageInfo after await this.getPageInfo(...): the response,
\* then the ChatFrame with role "browser".
GetPageInfoDone(cmd) ==
    /\ cmd \in pending
    /\ cmd.name = "getPageInfo"
    /\ pending' = pending \ {cmd}
    /\ \E fail \in FailSets(clients, readyState) :
          out' = Finish(cmd, "ok", "-", ReplyOk(cmd, PageData(cmd.val)),
                        <<>>, <<Chat("browser", PageChat(cmd.val))>>, fail)
    /\ UNCHANGED <<bridgeVars, envVars, llmVars, sockVars, winVars, uiBridgeConnected>>

\* handleCmd, setFeature after await this.llm.setOfflineMode(value): the
\* featureState event with the value asked for, then the response.
\* setOfflineMode catches what its steps throw and returns a boolean.
SetFeatureDone(cmd) ==
    /\ cmd \in pending
    /\ cmd.name = "setFeature"
    /\ pending' = pending \ {cmd}
    /\ \E fail \in FailSets(clients, readyState) :
          out' = Finish(cmd, "ok", "-", ReplyOk(cmd, "{}"),
                        <<Evt("featureState", cmd.val)>>, <<>>, fail)
    /\ UNCHANGED <<bridgeVars, envVars, llmVars, sockVars, winVars, uiBridgeConnected>>

\* A chunk of the running turn, mirrored as an assistant ChatFrame
\* (MessageStore.bridgeSafeChat).
ChatChunk(cmd) ==
    /\ cmd \in pending
    /\ cmd.name = "sendChat"
    /\ \E fail \in FailSets(clients, readyState) :
          out' = [NoOut EXCEPT
                    !.emitted = <<Chat("assistant", "chunk")>>,
                    !.threw = fail,
                    !.wire = emitChat(clients, readyState, "assistant", "chunk", fail)]
    /\ UNCHANGED <<bridgeVars, envVars, llmVars, sockVars, winVars, uiBridgeConnected, pending>>

\* handleCmd, sendChat after await this.llm.sendChatMessage(...).
\* sendChatMessage catches what the turn throws and reports it to the
\* sidebar (handleStreamError); it returns normally unless that report
\* itself throws (webContents.send on a destroyed sidebar), which is the
\* one failure that reaches handleCmd's catch block.
SendChatDone(cmd, raised) ==
    /\ cmd \in pending
    /\ cmd.name = "sendChat"
    /\ pending' = pending \ {cmd}
    /\ out' = IF raised
                 THEN Finish(cmd, "raised", "Object has been destroyed",
                             ReplyCaught(cmd, "Object has been destroyed"), <<>>, <<>>, {})
                 ELSE Finish(cmd, "ok", "-", ReplyOk(cmd, "{}"), <<>>, <<>>, {})
    /\ UNCHANGED <<bridgeVars, envVars, llmVars, sockVars, winVars, uiBridgeConnected>>

\* ----------------------------------------------------------- specifications
Next ==
    \/ Start
    \/ Stop
    \/ \E c \in Conn, tok \in Tokens, now \in Time : Connection(c, tok, now)
    \/ \E c \in Conn : Pong(c)
    \/ \E c \in Conn : PeerClose(c)
    \/ \E c \in Conn : SocketClosed(c)
    \/ HeartbeatTick
    \/ \E t \in TabIds : OpenTab(t)
    \/ \E t \in TabIds : CloseTab(t)
    \/ \E c \in Conn, f \in Frames : OnMessage(c, f)
    \/ \E cmd \in pending : GetPageInfoDone(cmd)
    \/ \E cmd \in pending : SetFeatureDone(cmd)
    \/ \E cmd \in pending : ChatChunk(cmd)
    \/ \E cmd \in pending, raised \in BOOLEAN : SendChatDone(cmd, raised)

\* The bridge with every handler.
Spec == Init /\ [][Next]_vars

\* The life cycle alone: the server, the handshake, the sockets, the
\* heartbeat and the window.  The command handlers leave all of these
\* variables unchanged.
NextLife ==
    \/ Start
    \/ Stop
    \/ \E c \in Conn, tok \in Tokens, now \in Time : Connection(c, tok, now)
    \/ \E c \in Conn : Pong(c)
    \/ \E c \in Conn : PeerClose(c)
    \/ \E c \in Conn : SocketClosed(c)
    \/ HeartbeatTick
    \/ \E t \in TabIds : OpenTab(t)
    \/ \E t \in TabIds : CloseTab(t)

SpecLife == Init /\ [][NextLife]_vars

\* ------------------------------------------------------------------- claims
\* The response frames among the frames a socket was sent, and the rest.
Responses(frames) == SelectSeq(frames, LAMBDA x : x.type = "res")
Broadcasts(frames) == SelectSeq(frames, LAMBDA x : x.type # "res")

\* interface BridgeCommand: type "cmd", id and name both present.
WellFormedCommand(f) == f.type = "cmd" /\ f.id # "none" /\ f.name # "none"

\* C1: a connection whose token fails verification is closed with code 4001
\* at the handshake, never enters the active set, gets no listener, and no
\* command arriving on it is dispatched, suspended or answered.
C1_AuthFailureClosesUnadmitted ==
    /\ \A c \in Conn :
          (out.hshake.conn = c /\ out.hshake.verify # "ok") =>
             /\ readyState[c] = "CLOSING"
             /\ closeCode[c] = UNAUTHORIZED
             /\ c \notin clients
             /\ ~listening[c]
    /\ \A c \in Conn :
          closeCode[c] = UNAUTHORIZED =>
             /\ c \notin clients
             /\ ~listening[c]
             /\ connectionAlive[c] = "undefined"
             /\ \A cmd \in pending : cmd.conn # c
             /\ out.done.cmd.conn # c
             /\ \A i \in 1..Len(out.sendCalls) : out.sendCalls[i].to # c
             /\ out.wire[c] = <<>>

\* A command frame has just arrived on a connection that was rejected with
\* 4001, while another connection is in the active set.
C1_Witness ==
    \E c \in Conn :
       /\ out.inbound.conn = c
       /\ out.inbound.frame.type = "cmd"
       /\ closeCode[c] = UNAUTHORIZED
       /\ clients # {}

\* What the latest step answered and where, against what it received.
AnswersMatch ==
    /\ out.done = NoDone => out.sendCalls = <<>>
    /\ out.done # NoDone =>
          /\ Len(out.sendCalls) = 1
          /\ out.sendCalls[1].to = out.done.cmd.conn
          /\ out.sendCalls[1].frame.type = "res"
          /\ out.sendCalls[1].frame.id = out.done.cmd.id
    /\ (out.inbound.conn # 0 /\ listening[out.inbound.conn] /\ out.inbound.frame.type = "cmd") =>
          LET c == out.inbound.conn
              f == out.inbound.frame
              Mine(cmd) == cmd.conn = c /\ cmd.id = f.id /\ cmd.name = f.name
          IN  \/ Mine(out.done.cmd)
              \/ out.done = NoDone /\ \E cmd \in pending : Mine(cmd)
    /\ \A c \in Conn :
          Responses(out.wire[c]) =
             IF out.done # NoDone /\ c = out.done.cmd.conn /\ readyState[c] = "OPEN"
                THEN <<out.sendCalls[1].frame>> ELSE <<>>

\* C2: every command received on an admitted connection is answered by
\* exactly one this.send, on that connection, with the command's id: in the
\* step it arrives, or in the step that ends its suspension.  Until then it
\* is pending, nothing is sent for it, and it leaves the pending commands
\* only by the step that answers it.  No step sends a response for
\* anything else, and the wire carries a response only where it was sent.
C2_ExactlyOneResponse ==
    /\ []AnswersMatch
    /\ [][/\ \A cmd \in pending \ pending' : out'.done.cmd = cmd
          /\ \A cmd \in pending' \ pending :
                /\ out'.done = NoDone
                /\ out'.inbound.conn = cmd.conn
                /\ out'.inbound.frame.id = cmd.id]_vars

\* A getPageInfo command ends after its suspension and its response is on
\* the wire of its connection, while the other connection is admitted too.
C2_Witness ==
    /\ out.done.outcome = "ok"
    /\ out.done.cmd.name = "getPageInfo"
    /\ Responses(out.wire[out.done.cmd.conn]) # <<>>
    /\ Cardinality(clients) = 2

\* C3: a command whose name is none of getPageInfo, setFeature, sendChat is
\* answered in the step it arrives with one response carrying its id,
\* ok = false and the error "Unknown command"; the active set and the
\* state of every socket are as before.
C3_UnknownCommandAnswered ==
    [][(/\ out'.inbound.conn # 0
        /\ listening[out'.inbound.conn]
        /\ out'.inbound.frame.type = "cmd"
        /\ out'.inbound.frame.name \notin KnownNames)
       => (/\ out'.sendCalls =
                <<[to |-> out'.inbound.conn,
                   frame |-> Res(out'.inbound.frame.id, FALSE, "Unknown command")]>>
           /\ out'.done.outcome = "unknown"
           /\ clients' = clients
           /\ readyState' = readyState
           /\ pending' = pending)]_vars

\* An unknown command was answered on a connection that is in the active
\* set and open, and the response is on its wire.
C3_Witness ==
    /\ out.done.outcome = "unknown"
    /\ out.done.cmd.name = "bogus"
    /\ out.done.cmd.id = "i2"
    /\ out.done.cmd.conn \in clients
    /\ readyState[out.done.cmd.conn] = "OPEN"
    /\ out.wire[out.done.cmd.conn] = <<Res("i2", FALSE, "Unknown command")>>

\* C4: a frame that is not a well-formed command (JSON.parse throws, type
\* is not "cmd", or id or name is missing) is dropped: nothing is
\* dispatched and no response is sent.
C4_MalformedFrameIgnored ==
    (out.inbound.conn # 0 /\ ~WellFormedCommand(out.inbound.frame)) =>
       /\ out.done = NoDone
       /\ out.sendCalls = <<>>
       /\ \A c \in Conn : out.wire[c] = <<>>

\* C5: when the handling of a command raises, the one response sent is
\* ok = false with the message of what was raised; the active set, the
\* sockets and the other pending commands are as before.
C5_FailureContained ==
    [][out'.done.outcome = "raised"
       => (/\ out'.sendCalls =
                <<[to |-> out'.done.cmd.conn,
                   frame |-> Res(out'.done.cmd.id, FALSE, out'.done.err)]>>
           /\ out'.done.err \in {"No tab", "Object has been destroyed"}
           /\ clients' = clients
           /\ readyState' = readyState
           /\ closeCode' = closeCode
           /\ listening' = listening
           /\ pending' \ {out'.done.cmd} = pending \ {out'.done.cmd})]_vars

\* A getPageInfo raised "No tab" while a command of the other connection
\* is pending.
C5_Witness ==
    /\ out.done.outcome = "raised"
    /\ out.done.err = "No tab"
    /\ out.wire[out.done.cmd.conn] = <<Res(out.done.cmd.id, FALSE, "No tab")>>
    /\ \E cmd \in pending : cmd.conn # out.done.cmd.conn

\* C6: a heartbeat tick removes from the active set and terminates every
\* member that has not answered since the previous tick (its flag is
\* false), and marks every other member unanswered and pings it; it
\* touches no socket outside the active set.
C6_HeartbeatSweep ==
    [][out'.call = "tick"
       => \A c \in Conn :
             /\ (c \in clients /\ connectionAlive[c] = "false") =>
                   /\ c \notin clients'
                   /\ readyState'[c] \in {"CLOSING", "CLOSED"}
                   /\ c \notin out'.pinged
             /\ (c \in clients /\ connectionAlive[c] # "false") =>
                   /\ c \in clients'
                   /\ connectionAlive'[c] = "false"
                   /\ readyState'[c] = readyState[c]
                   /\ c \in out'.pinged
             /\ c \notin clients =>
                   /\ c \notin clients'
                   /\ connectionAlive'[c] = connectionAlive[c]
                   /\ readyState'[c] = readyState[c]
                   /\ c \notin out'.pinged]_vars

\* One tick has evicted and terminated a silent member and pinged another.
C6_Witness ==
    /\ out.call = "tick"
    /\ out.pinged # {}
    /\ \E c \in Conn :
          /\ listening[c]
          /\ c \notin clients
          /\ readyState[c] = "CLOSING"
          /\ closeCode[c] = ABNORMAL
          /\ sincePong[c] = 2

\* C7: a member of the active set has seen at most one heartbeat tick since
\* its admission or its last pong: the second silent tick removes it, so a
\* silent connection is gone within two heartbeat periods.
C7_SilentGoneWithinTwoTicks ==
    \A c \in Conn :
       /\ c \in clients => sincePong[c] <= 1
       /\ (c \in clients /\ sincePong[c] = 1) => connectionAlive[c] = "false"
       /\ (c \in clients /\ sincePong[c] = 0) => connectionAlive[c] = "true"

\* A connection stayed silent for two ticks and is out of the active set,
\* while a connection that answered is still in it.
C7_Witness ==
    \E c, d \in Conn :
       /\ sincePong[c] = 2
       /\ c \notin clients
       /\ d \in clients
       /\ sincePong[d] = 0
       /\ out.call # "tick"

\* C8: what emitAll was given reaches, in order, every member of the active
\* set that is OPEN and whose send did not throw, and nobody else.
C8_BroadcastReach ==
    \A c \in Conn :
       Broadcasts(out.wire[c]) =
          IF c \in clients /\ readyState[c] = "OPEN" /\ c \notin out.threw
             THEN out.emitted ELSE <<>>

\* A broadcast reached one member although the send to the other threw.
C8_Witness ==
    \E c, d \in Conn :
       /\ out.emitted # <<>>
       /\ c \in out.threw
       /\ d \in clients
       /\ d # c
       /\ Broadcasts(out.wire[d]) = out.emitted
       /\ out.wire[c] = <<>>

\* C9: whenever the active set is empty after some connection was
\* admitted, the last bridge-connected value sent to the local UI is false.
C9_IndicatorTracksActiveSet ==
    (clients = {} /\ uiBridgeConnected # "unset") => uiBridgeConnected = "false"

\* C10: at most one server and one heartbeat timer are ever live; start()
\* on a running bridge and stop() on a stopped one change nothing; after
\* stop() no server, no timer and no member of the active set is left.
C10_StartStopIdempotent ==
    [][/\ liveServers' <= 1
       /\ liveTimers' <= 1
       /\ liveServers' = (IF httpServer' THEN 1 ELSE 0)
       /\ liveTimers' = (IF heartbeatTimer' THEN 1 ELSE 0)
       /\ out'.call \in {"start:running", "stop:stopped"} => UNCHANGED progVars
       /\ out'.call \in {"stop:running", "stop:stopped"} =>
             /\ ~httpServer' /\ ~wsServer' /\ ~heartbeatTimer'
             /\ liveServers' = 0 /\ liveTimers' = 0
             /\ clients' = {}
       /\ out'.call = "start:stopped" =>
             /\ httpServer' /\ wsServer'
             /\ heartbeatTimer' = (PingSec > 0)]_vars

\* start() was called on a bridge that is running with its heartbeat and a
\* member in the active set.
C10_Witness ==
    /\ out.call = "start:running"
    /\ heartbeatTimer
    /\ clients # {}

\* C11: a command arriving on a connection that was admitted and that
\* stop() has since removed from the active set is neither dispatched nor
\* answered, and no handler is suspended on its behalf.  (An admitted socket
\* that is OPEN and outside the active set is one that stop() removed: the
\* heartbeat terminates what it removes, the close listener runs on a
\* closed socket.)
C11_NoDispatchAfterStop ==
    \A c \in Conn :
       (out.inbound.conn = c /\ listening[c] /\ c \notin clients) =>
          /\ out.done = NoDone
          /\ out.sendCalls = <<>>
          /\ \A cmd \in pending : cmd.conn # c

\* ----------------------------------------------------- MessageStore calls
\* One action per public method of MessageStore.  Every method ends with
\* emitToRenderer(), counted in llmOut.notified.
LlmOut(op, n) == [NoLlmOut EXCEPT !.op = op, !.notified = n]

\* A method that sends nothing to the bridge.
StoreFrame == UNCHANGED <<progVars, modelVars, turnVars>> /\ out' = NoOut

\* bridgeSafeChat(text): try { this.bridge?.emitChat("assistant", text) }
\* catch {}.  The frame carries the chunk's one piece.
bridgeSafeChat(chunk) ==
    /\ \E fail \in FailSets(clients, readyState) :
          out' = [NoOut EXCEPT
                    !.emitted = <<Chat("assistant", chunk[1])>>,
                    !.threw = fail,
                    !.wire = emitChat(clients, readyState, "assistant", chunk[1], fail)]
    /\ UNCHANGED <<progVars, modelVars, turnVars>>

SetAll(msgs) ==
    /\ messages' = setAll(messages, msgs)
    /\ streamed' = NoRun
    /\ llmOut' = [LlmOut("setAll", 1) EXCEPT !.arg = msgs]
    /\ UNCHANGED streamingIndex
    /\ StoreFrame

\* clear(): this.messages = []; streamingIndex is left as it is.
Clear ==
    /\ messages' = <<>>
    /\ streamed' = NoRun
    /\ llmOut' = LlmOut("clear", 1)
    /\ UNCHANGED streamingIndex
    /\ StoreFrame

AddAssistant(content) ==
    /\ Len(messages) < MaxLog
    /\ messages' = push(messages, "assistant", content)
    /\ streamed' = NoRun
    /\ llmOut' = LlmOut("addAssistant", 1)
    /\ UNCHANGED streamingIndex
    /\ StoreFrame

AddUser(content) ==
    /\ Len(messages) < MaxLog
    /\ messages' = push(messages, "user", content)
    /\ streamed' = NoRun
    /\ llmOut' = LlmOut("addUser", 1)
    /\ UNCHANGED streamingIndex
    /\ StoreFrame

\* beginStream(firstChunk): streamingIndex = messages.length; push; emit.
BeginStream(chunk) ==
    /\ Len(messages) < MaxLog
    /\ streamingIndex' = Len(messages)
    /\ messages' = beginStream(messages, streamingIndex, chunk)
    /\ streamed' = [phase |-> "open", before |-> messages, text |-> chunk, n |-> 1]
    /\ llmOut' = [LlmOut("beginStream", 1) EXCEPT !.slotWas = streamingIndex]
    /\ bridgeSafeChat(chunk)

\* appendStream(chunk): with no slot open it is beginStream(chunk); with a
\* slot open on an index the log no longer has, messages[idx].content
\* throws before anything is written.
AppendStream(chunk) ==
    /\ IF streamingIndex = -1
          THEN /\ Len(messages) < MaxLog
               /\ streamingIndex' = Len(messages)
               /\ messages' = beginStream(messages, streamingIndex, chunk)
               /\ streamed' = [phase |-> "open", before |-> messages,
                               text |-> chunk, n |-> 1]
               /\ llmOut' = LlmOut("appendStream", 1)
               /\ bridgeSafeChat(chunk)
          ELSE IF streamingIndex >= Len(messages)
          THEN /\ llmOut' = [LlmOut("appendStream", 0) EXCEPT !.raised = TRUE,
                                                              !.slotWas = streamingIndex]
               /\ streamed' = NoRun
               /\ UNCHANGED <<messages, streamingIndex>>
               /\ StoreFrame
          ELSE /\ Len(messages[streamingIndex + 1].content) < MaxText
               /\ messages' = appendStream(messages, streamingIndex, chunk)
               /\ streamed' = IF streamed.phase = "open"
                                 THEN [streamed EXCEPT !.text = @ \o chunk, !.n = @ + 1]
                                 ELSE NoRun
               /\ llmOut' = [LlmOut("appendStream", 1) EXCEPT !.slotWas = streamingIndex]
               /\ UNCHANGED streamingIndex
               /\ bridgeSafeChat(chunk)

\* endStream(): streamingIndex = null; emit.
EndStream ==
    /\ streamingIndex' = -1
    /\ streamed' = IF streamed.phase = "open"
                      THEN [streamed EXCEPT !.phase = "ended"]
                      ELSE NoRun
    /\ llmOut' = LlmOut("endStream", 1)
    /\ UNCHANGED messages
    /\ StoreFrame

NextStore ==
    \/ \E msgs \in Logs : SetAll(msgs)
    \/ Clear
    \/ AddAssistant(QrText)
    \/ AddUser(Hi)
    \/ \E chunk \in Chunks : BeginStream(chunk)
    \/ \E chunk \in Chunks : AppendStream(chunk)
    \/ EndStream

SpecStore == Init /\ [][NextStore]_vars

\* C13: after beginStream(c0), appendStream(c1) ... appendStream(cN) and
\* endStream() with no other log operation in between, the log is what it
\* was before the beginStream followed by one assistant message whose content
\* is c0 c1 ... cN in call order, and no slot is open.  While the calls are
\* still coming the same holds with the slot open on that last message.
C13_StreamConcatenates ==
    streamed.phase \in {"open", "ended"} =>
       /\ messages = Append(streamed.before, Msg("assistant", streamed.text))
       /\ streamed.phase = "ended" => streamingIndex = -1
       /\ streamed.phase = "open" => streamingIndex = Len(streamed.before)

\* a stream of three chunks has ended behind a message that was there before
C13_Witness ==
    /\ streamed.phase = "ended"
    /\ streamed.n = 3
    /\ streamed.before # <<>>
    /\ llmOut.op = "endStream"
    /\ messages[Len(messages)].content \in {<<"a", "b", "a">>, <<"a", "b", "b">>}

\* C14: streamingIndex names at most one open slot in every state, and a
\* beginStream called while a slot is open on a message of the log leaves
\* that message, and every other message, where it was with the content it
\* had: the call only adds the new message after them.
C14_SecondBeginKeepsFirst ==
    /\ [](streamingIndex \in -1..MaxLog)
    /\ [][(llmOut'.op = "beginStream" /\ streamingIndex >= 0
             /\ streamingIndex < Len(messages))
          => /\ Len(messages') = Len(messages) + 1
             /\ SubSeq(messages', 1, Len(messages)) = messages
             /\ messages'[streamingIndex + 1] = messages[streamingIndex + 1]]_vars

\* a second beginStream has run while the first stream, two chunks long, was
\* open; its message is still where it was
C14_Witness ==
    /\ llmOut.op = "beginStream"
    /\ llmOut.slotWas = 0
    /\ streamingIndex = 1
    /\ Len(messages) = 2
    /\ messages[1] = Msg("assistant", <<"a", "b">>)

\* C15: after setAll(msgs) the log equals msgs, a second setAll with the same
\* msgs leaves it equal to msgs, and every setAll call and every clear call
\* calls the UI notification exactly once.
C15_SetAllIdempotent ==
    /\ [](/\ llmOut.op = "setAll" => messages = llmOut.arg /\ llmOut.notified = 1
          /\ llmOut.op = "clear" => messages = <<>> /\ llmOut.notified = 1)
    /\ [][(llmOut.op = "setAll" /\ llmOut'.op = "setAll" /\ llmOut'.arg = llmOut.arg)
          => messages' = llmOut.arg /\ llmOut'.notified = 1]_vars

\* setAll has put a log of two messages in place while a stream was open on
\* the second message of the log before
C15_Witness ==
    /\ llmOut.op = "setAll"
    /\ llmOut.arg = <<Msg("user", Hi), Msg("assistant", <<"a">>)>>
    /\ messages = llmOut.arg
    /\ streamingIndex = 1

\* ------------------------------------------------ admission and the QR prompt
\* ipcMain "generate-bridge-qr": the QR image is added to the log as an
\* assistant message (when createBridgeQrDataUrl succeeds).
GenerateBridgeQr ==
    /\ Len(messages) < MaxLog
    /\ messages' = push(messages, "assistant", QrText)
    /\ streamed' = NoRun
    /\ llmOut' = LlmOut("generate-bridge-qr", 1)
    /\ UNCHANGED streamingIndex
    /\ StoreFrame

\* The life cycle of the bridge with the log: the QR prompt, the user's
\* messages, admissions.
NextAdmit ==
    \/ NextLife
    \/ GenerateBridgeQr
    \/ AddUser(Hi)

SpecAdmit == Init /\ [][NextAdmit]_vars

\* C12: the step that admits an authenticated connection puts it in the
\* active set with its liveness flag true, removes every QR-prompt message
\* from the conversation log and keeps the other messages in order, sets the
\* local UI indicator to connected, attaches the message listener only then
\* (no command of the connection was handled before), and, when a tab is
\* active, puts the activeTab event of that tab on the wire to the new
\* connection as its first and only frame, unless that send throws.
C12_AdmissionSteps ==
    [][\A c \in Conn :
         (out'.hshake.conn = c /\ out'.hshake.verify = "ok") =>
            /\ ~listening[c] /\ listening'[c]
            /\ c \in clients'
            /\ connectionAlive'[c] = "true"
            /\ messages' = filterQr(messages)
            /\ \A i \in 1..Len(messages') : ~IsQrContent(messages'[i].content)
            /\ uiBridgeConnected' = "true"
            /\ out'.done = NoDone /\ out'.sendCalls = <<>>
            /\ (activeTab # NoTab /\ c \notin out'.threw)
                  => out'.wire[c] = <<Evt("activeTab", activeTab)>>
            /\ activeTab = NoTab => out'.wire[c] = <<>>]_vars

\* a connection was admitted while a tab was active and the log held a user
\* message followed by a QR prompt: the prompt is gone, the user message stays
C12_Witness ==
    /\ \E c \in Conn :
          /\ out.hshake.conn = c /\ out.hshake.verify = "ok"
          /\ out.wire[c] = <<Evt("activeTab", "t1")>>
          /\ c \in clients
    /\ llmOut.op = "generate-bridge-qr"
    /\ messages = <<Msg("user", Hi)>>
    /\ uiBridgeConnected = "true"

\* ------------------------------------------------------ provider switching
\* createAppleLanguageModel() returns the cached global model when there is
\* one; otherwise the require of the native module succeeds or throws.
CreateOutcomes == IF appleAIModel THEN {TRUE} ELSE BOOLEAN

BoolStr(b) == IF b THEN "true" ELSE "false"

\* The LLMClient constructor's detached modelManager.init().then(sync).
ManagerInit(avail, created) ==
    /\ initPending
    /\ initPending' = FALSE
    /\ modelManager' = initializeModel(modelManager, hasKey, avail, created)
    /\ client' = syncFromManager(modelManager')
    /\ appleAIModel' = (appleAIModel \/ modelManager'.model = "apple")
    /\ llmOut' = [NoLlmOut EXCEPT !.op = "init"]
    /\ out' = NoOut
    /\ UNCHANGED <<progVars, storeVars, turnVars, hasKey>>

\* LLMClient.setOfflineMode(enabled): the manager's setOfflineMode, then
\* syncFromManager.
SetOfflineMode(enabled, avail, created) ==
    /\ LET r == setOfflineMode(modelManager, enabled, hasKey, avail, created)
       IN  /\ modelManager' = r.mm
           /\ client' = syncFromManager(r.mm)
           /\ appleAIModel' = (appleAIModel \/ r.mm.model = "apple")
           /\ llmOut' = [NoLlmOut EXCEPT !.op = "setOfflineMode",
                                         !.enabled = enabled,
                                         !.ret = BoolStr(r.ret)]
    /\ out' = NoOut
    /\ UNCHANGED <<progVars, storeVars, turnVars, hasKey, initPending>>

\* C16: whenever setOfflineMode(true) has run and the on-device capability
\* is unavailable (the availability check was made and is negative, or the
\* model could not be created), the call returned false and the manager is
\* online: offline flag false, provider the configured online provider, and
\* a reason recorded.
C16_OfflineRefusedWhenUnavailable ==
    (/\ llmOut.op = "setOfflineMode"
     /\ llmOut.enabled
     /\ modelManager.appleAvailabilityChecked
     /\ ~modelManager.appleAvailable)
    => /\ llmOut.ret = "false"
       /\ ~modelManager.offlineMode
       /\ modelManager.provider = "online"
       /\ modelManager.appleUnavailableReason # "null"

\* --------------------------------------------------------------- the turn
\* The tab createTab(url) makes: a tab the window does not have yet, or,
\* when the model has run out of tab ids, one it has.
createTab(ts) ==
    IF TabIds \ ts # {} THEN CHOOSE t \in TabIds \ ts : TRUE
                        ELSE CHOOSE t \in TabIds : TRUE

UserText(kind) == <<kind>>
UnavailableText ==
    <<"Apple on-device AI is unavailable. Ensure macOS with Apple Intelligence is enabled.">>
YouAreOn(tab) == <<"You are on: ", tab>>
NoActiveTabText == <<"There is no active tab right now.">>
FailedToOpenText == <<"Failed to open ", "url">>
SwitchingText ==
    <<"Apple on-device AI is unavailable for this locale. Switching to online model...">>

\* What a generation call does before it returns or throws: the text it
\* streams ("none": no non-empty chunk), the tool the model calls
\* ("open_url:error": the tool's inspector call throws), and the error that
\* ends it.  An unsupported-locale error comes from the on-device model.
Gen(text, tool, error) == [text |-> text, tool |-> tool, error |-> error]

GenOutcomes ==
    {Gen("some", "none", "none"), Gen("some", "open_url", "none"),
     Gen("none", "none", "none"), Gen("none", "get_page_info", "none"),
     Gen("none", "open_url:error", "none"),
     Gen("some", "none", "other"), Gen("none", "none", "locale")}

\* Tools that emit a toolResult also when the inspector call threw.
ToolFramesResultOnError(tool) ==
    CASE tool = "open_url"       -> <<Evt("toolCall", "open_url"), Evt("toolResult", "open_url")>>
      [] tool = "open_url:error" -> <<Evt("toolCall", "open_url"), Evt("toolResult", "open_url")>>
      [] tool = "get_page_info"  -> <<Evt("toolResult", "get_page_info")>>
      [] tool = "get_page_info:error" -> <<Evt("toolResult", "get_page_info")>>
      [] OTHER                   -> <<>>

\* The events a tool emits (buildTools / buildNativeTools): open_url a
\* toolCall before the inspector call and a toolResult after it,
\* get_page_info a toolResult only.
ToolFrames(tool) ==
    CASE tool = "open_url"       -> <<Evt("toolCall", "open_url"), Evt("toolResult", "open_url")>>
      [] tool = "open_url:error" -> <<Evt("toolCall", "open_url")>>
      [] tool = "get_page_info"  -> <<Evt("toolResult", "get_page_info")>>
      [] OTHER                   -> <<>>

\* setLast(info): called when the inspector call returned.
SetLast(last, tool) ==
    IF tool \in {"open_url", "get_page_info"} THEN tool ELSE last

\* Streamer.consume: the first non-empty chunk goes to beginStream, and
\* endStream is called after the loop if there was one; a stream that throws
\* leaves the loop without endStream.
ConsumeLog(log, slot, g) ==
    IF g.text = "some" THEN beginStream(log, slot, <<"a">>) ELSE log
ConsumeSlot(log, slot, g) ==
    IF g.text = "some" THEN (IF g.error = "none" THEN -1 ELSE Len(log)) ELSE slot
ConsumeFrames(g) ==
    IF g.text = "some" THEN <<Chat("assistant", "a")>> ELSE <<>>

\* handleStreamError: the condition of the locale fallback.
FallsBack(provider, did, error) ==
    provider = "apple" /\ ~did /\ error = "locale"

\* finalText.trim().length === 0 && this.lastToolResult
NeedsFollowUp(g, last) ==
    g.text = "none" /\ last # "null"

\* sendChatMessage(request).  kind: the user text; online: what isOnline()
\* resolves to; avail, created: the on-device environment, for the preflight
\* switch; g: the main generation call; follow: the follow-up call ("text"
\* or "throws"); opened: openUrlAndGetInfo returns in openUrlAndSummarize.
\* Runs up to the point where the promise settles; the detached fallback of
\* handleStreamError continues in LocaleFallback.
SendChatMessage(kind, online, avail, created, g, follow, opened) ==
    /\ turn.n < MaxTurns
    /\ ~fallbackPending
    /\ LET log1 == push(messages, "user", UserText(kind))
           echo == <<Chat("user", kind)>>
           \* preflight
           pre == client.provider # "apple" /\ (~hasKey \/ ~online)
           r == IF pre THEN setOfflineMode(modelManager, TRUE, hasKey, avail, created)
                       ELSE [mm |-> modelManager, ret |-> FALSE]
           cl == IF pre THEN syncFromManager(r.mm) ELSE client
           preFrames == IF pre /\ r.ret THEN <<Evt("featureState", "true")>> ELSE <<>>
           t0 == [NoTurn EXCEPT !.n = turn.n + 1, !.kind = kind, !.tab = activeTab,
                                !.staleTool = (lastToolResult # "null")]
           \* main generation call
           last1 == SetLast(lastToolResult, g.tool)
           logG == ConsumeLog(log1, streamingIndex, g)
           slotG == ConsumeSlot(log1, streamingIndex, g)
           tG == [t0 EXCEPT !.gen = 1,
                            !.tools = IF g.tool = "none" THEN 0 ELSE 1,
                            !.toolReturned = (g.tool \in {"open_url", "get_page_info"}),
                            !.mainEmpty = (g.text = "none" /\ g.error = "none"),
                            !.localeError = (g.error = "locale")]
           res ==
             IF cl.provider = "apple" /\ (cl.model = "null" \/ ~cl.appleAvailable)
                THEN [log |-> push(log1, "assistant", UnavailableText),
                      slot |-> streamingIndex, last |-> lastToolResult,
                      did |-> didAppleLocaleFallback, pend |-> FALSE,
                      frames |-> <<>>, t |-> [t0 EXCEPT !.ended = "unavailable"]]
             ELSE IF kind = "whatPage"
                THEN LET reply == IF activeTab # NoTab THEN YouAreOn(activeTab)
                                                       ELSE NoActiveTabText
                     IN  [log |-> push(log1, "assistant", reply),
                          slot |-> streamingIndex, last |-> lastToolResult,
                          did |-> didAppleLocaleFallback, pend |-> FALSE,
                          frames |-> <<Chat("assistant", reply[1])>>,
                          t |-> [t0 EXCEPT !.ended = "whatPage"]]
             ELSE IF cl.model = "null"
                THEN [log |-> log1,
                      slot |-> streamingIndex, last |-> lastToolResult,
                      did |-> didAppleLocaleFallback, pend |-> FALSE,
                      frames |-> <<>>, t |-> [t0 EXCEPT !.ended = "notConfigured"]]
             ELSE IF cl.provider = "apple" /\ kind = "openUrl"
                THEN \* openUrlAndSummarize: the message goes to this.messages,
                     \* which is not the store's log
                     [log |-> IF opened THEN setAll(log1, log1)
                                        ELSE push(log1, "assistant", FailedToOpenText),
                      slot |-> streamingIndex, last |-> lastToolResult,
                      did |-> didAppleLocaleFallback, pend |-> FALSE,
                      frames |-> IF opened
                                    THEN <<Evt("pageOpened", "url"),
                                           Chat("assistant", "Opened url")>>
                                    ELSE <<>>,
                      t |-> [t0 EXCEPT !.ended = "navigation"]]
             ELSE IF g.error # "none"
                THEN IF FallsBack(cl.provider, didAppleLocaleFallback, g.error)
                        THEN [log |-> push(logG, "assistant", SwitchingText),
                              slot |-> slotG, last |-> last1,
                              did |-> TRUE, pend |-> TRUE,
                              frames |-> ToolFrames(g.tool) \o ConsumeFrames(g),
                              t |-> [tG EXCEPT !.ended = "fallback"]]
                        ELSE [log |-> logG,
                              slot |-> slotG, last |-> last1,
                              did |-> didAppleLocaleFallback, pend |-> FALSE,
                              frames |-> ToolFrames(g.tool) \o ConsumeFrames(g),
                              t |-> [tG EXCEPT !.ended = "error"]]
             ELSE IF NeedsFollowUp(g, last1)
                THEN [log |-> IF follow = "text"
                                 THEN beginStream(logG, slotG, <<"b">>) ELSE logG,
                      slot |-> IF follow = "text" THEN -1 ELSE slotG,
                      last |-> IF follow = "text" THEN "null" ELSE last1,
                      did |-> didAppleLocaleFallback, pend |-> FALSE,
                      frames |-> ToolFrames(g.tool) \o
                                 (IF follow = "text" THEN <<Chat("assistant", "b")>>
                                                     ELSE <<>>),
                      t |-> [tG EXCEPT !.gen = 2, !.followups = 1,
                                       !.ended = IF follow = "text" THEN "generated"
                                                                   ELSE "error"]]
             ELSE [log |-> logG,
                   slot |-> slotG, last |-> last1,
                   did |-> didAppleLocaleFallback, pend |-> FALSE,
                   frames |-> ToolFrames(g.tool) \o ConsumeFrames(g),
                   t |-> [tG EXCEPT !.ended = "generated"]]
           frames == echo \o preFrames \o res.frames
           \* openUrlAndGetInfo ran: in openUrlAndSummarize, or in open_url
           opensTab == \/ res.t.ended = "navigation" /\ opened
                       \/ res.t.gen >= 1 /\ g.tool = "open_url"
       IN  /\ g.error = "locale" => cl.provider = "apple"
           /\ modelManager' = r.mm
           /\ client' = cl
           /\ appleAIModel' = (appleAIModel \/ r.mm.model = "apple")
           /\ messages' = res.log
           /\ streamingIndex' = res.slot
           /\ streamed' = NoRun
           /\ lastToolResult' = res.last
           /\ didAppleLocaleFallback' = res.did
           /\ fallbackPending' = res.pend
           /\ turn' = res.t
           /\ llmOut' = [NoLlmOut EXCEPT !.op = "sendChatMessage"]
           /\ \E fail \in FailSets(clients, readyState) :
                 out' = [NoOut EXCEPT !.emitted = frames,
                                      !.threw = fail,
                                      !.wire = emitEach(clients, readyState, frames, fail)]
           /\ IF opensTab
                 THEN /\ tabs' = tabs \cup {createTab(tabs)}
                      /\ activeTab' = createTab(tabs)
                 ELSE UNCHANGED winVars
    /\ UNCHANGED <<bridgeVars, envVars, sockVars, uiBridgeConnected, pending,
                   hasKey, initPending>>

\* The rest of handleStreamError's detached fallback, from its await on:
\* setOfflineMode(false), the broadcast, and one streamer.run on the online
\* model if there is one.  retry: the text that run streams.
LocaleFallback(avail, created, retry) ==
    /\ fallbackPending
    /\ fallbackPending' = FALSE
    /\ LET r == setOfflineMode(modelManager, FALSE, hasKey, avail, created)
           cl == syncFromManager(r.mm)
           told == IF ~r.ret /\ cl.provider # "apple"
                      THEN <<Evt("featureState", "false")>> ELSE <<>>
           ran == cl.model # "null"
           g == Gen(retry, "none", "none")
           frames == told \o (IF ran THEN ConsumeFrames(g) ELSE <<>>)
       IN  /\ modelManager' = r.mm
           /\ client' = cl
           /\ appleAIModel' = (appleAIModel \/ r.mm.model = "apple")
           /\ messages' = IF ran THEN ConsumeLog(messages, streamingIndex, g) ELSE messages
           /\ streamingIndex' = IF ran THEN ConsumeSlot(messages, streamingIndex, g)
                                       ELSE streamingIndex
           /\ turn' = IF ran THEN [turn EXCEPT !.gen = @ + 1, !.retries = @ + 1,
                                               !.ended = "retried"]
                             ELSE [turn EXCEPT !.ended = "error"]
           /\ llmOut' = [NoLlmOut EXCEPT !.op = "localeFallback"]
           /\ \E fail \in FailSets(clients, readyState) :
                 out' = [NoOut EXCEPT !.emitted = frames,
                                      !.threw = fail,
                                      !.wire = emitEach(clients, readyState, frames, fail)]
    /\ streamed' = NoRun
    /\ UNCHANGED <<progVars, hasKey, initPending, lastToolResult, didAppleLocaleFallback>>

\* The conversation side: provider switches, turns, and the tabs the
\* shortcut answers from.
InitLlm ==
    /\ InitBridge
    /\ InitSystem
    /\ pingSecEnv = "unset"
    /\ InitStore
    /\ \E off \in BOOLEAN, key \in BOOLEAN : InitModel(off, key)
    /\ InitTurn

\* The inputs a call does not consult are held at one value: the
\* availability once it is cached, isOnline() where the preflight does not
\* ask, the generation outcome of a what-page question, the follow-up unless
\* the main call ends empty, the inspector outside a navigation request.
AvailOutcomes ==
    IF modelManager.appleAvailabilityChecked
       THEN {[available |-> TRUE, reason |-> ""]}
       ELSE Availabilities

OnlineOutcomes == IF client.provider # "apple" /\ hasKey THEN BOOLEAN ELSE {TRUE}

GensOf(kind) ==
    IF kind = "whatPage" THEN {Gen("some", "none", "none")} ELSE GenOutcomes

FollowOutcomes(g) ==
    IF g.text = "none" /\ g.error = "none" THEN {"text", "throws"} ELSE {"text"}

OpenedOutcomes(kind) == IF kind = "openUrl" THEN BOOLEAN ELSE {TRUE}

NextLlm ==
    \/ \E avail \in AvailOutcomes, created \in CreateOutcomes :
          ManagerInit(avail, created)
    \/ \E enabled \in BOOLEAN, avail \in AvailOutcomes, created \in CreateOutcomes :
          SetOfflineMode(enabled, avail, created)
    \/ \E kind \in TextKinds, online \in OnlineOutcomes, avail \in AvailOutcomes,
          created \in CreateOutcomes :
          \E g \in GensOf(kind), opened \in OpenedOutcomes(kind) :
             \E follow \in FollowOutcomes(g) :
                SendChatMessage(kind, online, avail, created, g, follow, opened)
    \/ \E avail \in AvailOutcomes, created \in CreateOutcomes,
          retry \in {"none", "some"} :
          LocaleFallback(avail, created, retry)
    \/ \E t \in TabIds : OpenTab(t)

SpecLlm == InitLlm /\ [][NextLlm]_vars

\* C17: with an online provider configured (its API key is there), every
\* turn whose on-device generation failed with an unsupported-locale error
\* has, once its fallback has run, made exactly one retry on the online
\* provider: not more, and not zero because an earlier turn already fell
\* back.
C17_OneRetryPerLocaleTurn ==
    (turn.localeError /\ ~fallbackPending /\ hasKey) => turn.retries = 1

\* C18: a turn asked a what-page question while a tab is active has added
\* to the log the user's text and then exactly one assistant message, 'You
\* are on: ...' for that tab, and has made no generation call and no tool
\* invocation, whatever the provider state.
C18_WhatPageShortcut ==
    (llmOut.op = "sendChatMessage" /\ turn.kind = "whatPage" /\ turn.tab # NoTab)
    => /\ Len(messages) >= 2
       /\ messages[Len(messages) - 1] = Msg("user", UserText("whatPage"))
       /\ messages[Len(messages)] = Msg("assistant", YouAreOn(turn.tab))
       /\ turn.gen = 0
       /\ turn.tools = 0

\* The events of one name among the objects a step broadcast.
EventsNamed(emitted, name) ==
    SelectSeq(emitted, LAMBDA f : f.type = "evt" /\ f.role = name)

\* C19: the step of a turn asked to open a URL while the on-device provider
\* is active with its model records exactly one tool invocation, broadcasts
\* exactly one toolCall and one toolResult event, and leaves a non-empty
\* assistant message as the last message of the log.
C19_OpenUrlOnDevice ==
    [][(/\ turn'.n = turn.n + 1
        /\ turn'.kind = "openUrl"
        /\ client'.provider = "apple"
        /\ client'.model = "apple")
       => /\ turn'.tools = 1
          /\ Len(EventsNamed(out'.emitted, "toolCall")) = 1
          /\ Len(EventsNamed(out'.emitted, "toolResult")) = 1
          /\ messages'[Len(messages')].role = "assistant"
          /\ messages'[Len(messages')].content # <<>>]_vars

\* C20: a turn makes the follow-up call exactly when its main call returned
\* with no text and a tool returned its result during that same turn, and
\* then makes it once; a result left by an earlier turn triggers none.
C20_FollowUpOwnToolOnly ==
    llmOut.op = "sendChatMessage" =>
       turn.followups = IF turn.mainEmpty /\ turn.toolReturned THEN 1 ELSE 0

\* ------------------------------------------------------------- the tools
ToolNames == {"open_url", "get_page_info"}
Bundles == {"cloud", "native"}

\* One invocation of a tool's execute / handler, from the cloud bundle
\* (buildTools) or the native list (buildNativeTools), which differ in the
\* data of the toolResult event only.  pageOk: the inspector call returns
\* rather than throws.  open_url opens a tab and makes it the active one
\* (PageInspector.openUrlAndGetInfo).  The handler catches whatever is
\* thrown and returns { error }.
Execute(bundle, name, pageOk) ==
    LET tool == IF pageOk THEN name ELSE name \o ":error"
        frames == ToolFrames(tool)
    IN  /\ lastToolResult' = SetLast(lastToolResult, tool)
        /\ IF name = "open_url" /\ pageOk
              THEN /\ tabs' = tabs \cup {createTab(tabs)}
                   /\ activeTab' = createTab(tabs)
              ELSE UNCHANGED winVars
        /\ llmOut' = [NoLlmOut EXCEPT !.op = name,
                                      !.ret = IF pageOk THEN "info" ELSE "error"]
        /\ \E fail \in FailSets(clients, readyState) :
              out' = [NoOut EXCEPT !.call = "tool:" \o bundle,
                                   !.emitted = frames,
                                   !.threw = fail,
                                   !.wire = emitEach(clients, readyState, frames, fail)]
        /\ UNCHANGED <<bridgeVars, envVars, sockVars, uiBridgeConnected, pending,
                       storeVars, modelVars, didAppleLocaleFallback,
                       fallbackPending, turn>>

\* The tools with the bridge they report to.
NextTools ==
    \/ NextLife
    \/ \E bundle \in Bundles, name \in ToolNames, pageOk \in BOOLEAN :
          Execute(bundle, name, pageOk)

SpecTools == Init /\ [][NextTools]_vars

ToolStep == out.call \in {"tool:cloud", "tool:native"}

\* C21: a tool invocation whose page operation returned has emitted exactly
\* one toolCall event and after it exactly one toolResult event, and
\* lastToolResult holds its result, for both tools and both bundles.
C21_ToolCallThenResult ==
    (ToolStep /\ llmOut.ret = "info") =>
       /\ out.emitted = <<Evt("toolCall", llmOut.op), Evt("toolResult", llmOut.op)>>
       /\ lastToolResult = llmOut.op

\* C22: a tool invocation whose page operation threw does not raise: it
\* returns the error object, emits no toolResult event, and leaves
\* lastToolResult as it was.
C22_ToolFailureContained ==
    [][(out'.call \in {"tool:cloud", "tool:native"} /\ llmOut'.ret = "error")
       => /\ ~llmOut'.raised
          /\ EventsNamed(out'.emitted, "toolResult") = <<>>
          /\ lastToolResult' = lastToolResult]_vars

\* open_url failed while a connection was open and an earlier result was
\* held: the connection got the toolCall only, the earlier result is there
C22_Witness ==
    /\ ToolStep
    /\ llmOut.op = "open_url" /\ llmOut.ret = "error"
    /\ lastToolResult = "get_page_info"
    /\ \E c \in Conn : out.wire[c] = <<Evt("toolCall", "open_url")>>

\* ------------------------------------------------------- getPageInfo (C23)
\* The step in which a getPageInfo command ended, and how.
PageInfoEnded(outcome) ==
    out.done.cmd.name = "getPageInfo" /\ out.done.outcome = outcome

\* C23: getPageInfo uses the tab named by tabId when that tab exists and
\* otherwise the active tab; it is answered ok=false only when neither
\* exists, and then no ChatFrame is broadcast; when it succeeds the response
\* is ok=true with the page data of that tab, and exactly one ChatFrame with
\* role "browser" is broadcast, after the response was sent.
C23_PageInfoGivenOrActive ==
    /\ PageInfoEnded("raised") =>
          /\ getTab(out.inbound.frame.arg) = NoTab
          /\ activeTab = NoTab
          /\ out.emitted = <<>>
    /\ PageInfoEnded("ok") =>
          /\ out.sendCalls = SendCalls(out.done.cmd.conn,
                                       ReplyOk(out.done.cmd, PageData(out.done.cmd.val)))
          /\ out.emitted = <<Chat("browser", PageChat(out.done.cmd.val))>>
          /\ \A c \in Conn :
                Responses(out.wire[c]) # <<>> =>
                   /\ out.wire[c][1].type = "res"
                   /\ Len(Responses(out.wire[c])) = 1

\* -------------------------------------------------------- setFeature (C24)
\* The featureState event reporting the mode the provider ended in.
FeatureEventActual(value, r) == <<Evt("featureState", BoolStr(r.mm.offlineMode))>>

\* this.emitEvent({ name: "featureState", data: { offlineMode: value } }):
\* the value asked for; what setOfflineMode resolved to (r) is not used.
FeatureEvent(value, r) == <<Evt("featureState", BoolStr(value))>>

FeatureFrames == {InFrame("cmd", "i1", "setFeature", a) : a \in ArgsOf("setFeature")}

\* handleCmd, case "setFeature", from the frame to the response, with the
\* provider it switches: for key offlineMode, LLMClient.setOfflineMode(value)
\* (the manager's setOfflineMode, then syncFromManager), the featureState
\* event, the response; for another key the response alone.
SetFeature(c, f, avail, created) ==
    /\ CanReceive(c)
    /\ listening[c]
    /\ f \in FeatureFrames
    /\ IF f.arg \in {"offlineMode:true", "offlineMode:false"}
          THEN LET value == (f.arg = "offlineMode:true")
                   r == setOfflineMode(modelManager, value, hasKey, avail, created)
               IN  /\ modelManager' = r.mm
                   /\ client' = syncFromManager(r.mm)
                   /\ appleAIModel' = (appleAIModel \/ r.mm.model = "apple")
                   /\ llmOut' = [NoLlmOut EXCEPT !.op = "setOfflineMode",
                                                 !.enabled = value,
                                                 !.ret = BoolStr(r.ret)]
                   /\ \E fail \in FailSets(clients, readyState) :
                         out' = [Finish(Cmd(c, f, BoolStr(value)), "ok", "-", ReplyOk(f, "{}"),
                                        FeatureEvent(value, r), <<>>, fail)
                                   EXCEPT !.inbound = [conn |-> c, frame |-> f]]
          ELSE /\ out' = [Finish(Cmd(c, f, "-"), "ok", "-", ReplyOk(f, "{}"), <<>>, <<>>, {})
                            EXCEPT !.inbound = [conn |-> c, frame |-> f]]
               /\ llmOut' = NoLlmOut
               /\ UNCHANGED <<modelManager, client, appleAIModel>>
    /\ UNCHANGED <<progVars, storeVars, turnVars, hasKey, initPending>>

\* The bridge's sockets and the provider, with setFeature commands.
NextFeature ==
    \/ Start
    \/ Stop
    \/ \E c \in Conn, tok \in Tokens, now \in Time : Connection(c, tok, now)
    \/ \E c \in Conn : PeerClose(c)
    \/ \E c \in Conn : SocketClosed(c)
    \/ \E avail \in AvailOutcomes, created \in CreateOutcomes :
          ManagerInit(avail, created)
    \/ \E c \in Conn, f \in FeatureFrames, avail \in AvailOutcomes,
          created \in CreateOutcomes :
          SetFeature(c, f, avail, created)

SpecFeature == InitLlm /\ [][NextFeature]_vars

\* C24: a setFeature command with key offlineMode and value v broadcasts,
\* once the mode switch has returned, exactly one featureState event carrying
\* v (the value asked for, whatever mode the provider ended in), and is
\* answered ok=true after it; with any other key it is answered ok=true,
\* emits no event and leaves the provider as it was.
C24_FeatureStateEchoesRequest ==
    [][out'.done.cmd.name = "setFeature" =>
         /\ out'.done.outcome = "ok"
         /\ out'.sendCalls = SendCalls(out'.done.cmd.conn, ReplyOk(out'.done.cmd, "{}"))
         /\ IF out'.inbound.frame.arg \in {"offlineMode:true", "offlineMode:false"}
               THEN /\ llmOut'.op = "setOfflineMode"
                    /\ out'.emitted =
                          <<Evt("featureState",
                                IF out'.inbound.frame.arg = "offlineMode:true"
                                   THEN "true" ELSE "false")>>
                    /\ \A c \in Conn :
                          readyState[c] = "OPEN" /\ c \in clients /\ c \notin out'.threw
                             => out'.wire[c][1] = out'.emitted[1]
               ELSE /\ out'.emitted = <<>>
                    /\ UNCHANGED modelVars]_vars

\* A request for offline mode that the provider refused (it ended online)
\* was still announced as offlineMode=true to an open connection, and
\* answered ok=true.
C24_Witness ==
    /\ out.done.cmd.name = "setFeature"
    /\ out.inbound.frame.arg = "offlineMode:true"
    /\ llmOut.ret = "false"
    /\ ~modelManager.offlineMode
    /\ \E c \in Conn :
          out.wire[c] = <<Evt("featureState", "true"), Res("i1", TRUE, "{}")>>

\* ---------------------------------------------------------- sendChat (C25)
\* The step in which handleCmd took up a sendChat command.
SendChatTaken ==
    /\ out.inbound.frame.type = "cmd"
    /\ out.inbound.frame.name = "sendChat"
    /\ out.inbound.conn \in Conn
    /\ listening[out.inbound.conn]

\* The ChatFrames with role "user" and text t among frames.
UserEchoes(frames, t) ==
    SelectSeq(frames, LAMBDA x : x.type = "chat" /\ x.role = "user" /\ x.body = t)

\* C25: a sendChat command with text t is echoed as exactly one ChatFrame
\* with role "user" carrying t: one is broadcast, every open connection
\* receives that one, no assistant ChatFrame precedes it, and one turn is
\* started (the command is suspended in it, or has ended with it).
C25_OneUserEchoPerSendChat ==
    SendChatTaken =>
       LET t == out.inbound.frame.arg IN
       /\ Len(UserEchoes(out.emitted, t)) = 1
       /\ out.emitted[1] = Chat("user", t)
       /\ \A c \in Conn :
             c \in clients /\ readyState[c] = "OPEN" /\ c \notin out.threw
                => Len(UserEchoes(out.wire[c], t)) = 1
       /\ \/ Cmd(out.inbound.conn, out.inbound.frame, t) \in pending
          \/ out.done.cmd = Cmd(out.inbound.conn, out.inbound.frame, t)

\* ----------------------------------------------- connectivity monitor (C26)
\* A monitor that also asks for online mode when connectivity has returned.
MonitorSwitchBothWays(online, last, offline) ==
    [ask |-> \/ ~online /\ last # "false" /\ ~offline
             \/ online /\ last = "false" /\ offline,
     enabled |-> ~online]

\* A monitor that asks for offline mode at every probe that reports offline
\* while the provider is not offline, whatever the probe before reported.
MonitorSwitchLevel(online, last, offline) ==
    [ask |-> ~online /\ ~offline,
     enabled |-> TRUE]

\* check(): if (!online && lastOnline !== false) and the client is not
\* offline already, setOfflineMode(true); there is no other request.
MonitorSwitch(online, last, offline) ==
    [ask |-> ~online /\ last # "false" /\ ~offline,
     enabled |-> TRUE]

\* registerSystemEvents, check(), every 5 s and once at start.  online: what
\* isOnline() resolves to.  The first result is only recorded.
NetworkCheck(online, avail, created) ==
    /\ lastOnline' = BoolStr(online)
    /\ LET req == MonitorSwitch(online, lastOnline, client.offlineMode)
           r == setOfflineMode(modelManager, req.enabled, hasKey, avail, created)
       IN  IF lastOnline # "null" /\ req.ask
              THEN /\ modelManager' = r.mm
                   /\ client' = syncFromManager(r.mm)
                   /\ appleAIModel' = (appleAIModel \/ r.mm.model = "apple")
                   /\ llmOut' = [NoLlmOut EXCEPT !.op = "networkCheck",
                                                 !.enabled = req.enabled,
                                                 !.ret = BoolStr(r.ret),
                                                 !.notified = 1]
              ELSE /\ llmOut' = [NoLlmOut EXCEPT !.op = "networkCheck"]
                   /\ UNCHANGED <<modelManager, client, appleAIModel>>
    /\ out' = NoOut
    /\ UNCHANGED <<bridgeVars, pingSecEnv, ttlEnv, clock, issued, offered, consume, prompt, switching, sockVars, winVars,
                   uiBridgeConnected, pending, storeVars, turnVars, hasKey, initPending>>

\* The provider with everything that switches it: the monitor, the turns
\* (their preflight, and the locale fallback of a failed on-device
\* generation), and the explicit switch.
NextMonitor ==
    \/ \E online \in BOOLEAN, avail \in AvailOutcomes, created \in CreateOutcomes :
          NetworkCheck(online, avail, created)
    \/ \E avail \in AvailOutcomes, created \in CreateOutcomes :
          ManagerInit(avail, created)
    \/ \E enabled \in BOOLEAN, avail \in AvailOutcomes, created \in CreateOutcomes :
          SetOfflineMode(enabled, avail, created)
    \/ \E online \in OnlineOutcomes, avail \in AvailOutcomes, created \in CreateOutcomes :
          \E g \in GensOf("plain") :
             \E follow \in FollowOutcomes(g) :
                SendChatMessage("plain", online, avail, created, g, follow, FALSE)
    \/ \E avail \in AvailOutcomes, created \in CreateOutcomes,
          retry \in {"none", "some"} :
          LocaleFallback(avail, created, retry)

SpecMonitor == InitLlm /\ [][NextMonitor]_vars

NoUsableModel(cl) ==
    \/ cl.provider # "apple" /\ cl.model = "null"
    \/ cl.provider = "apple" /\ (cl.model = "null" \/ ~cl.appleAvailable)

\* The log ends with an assistant message.
EndsWithAssistant(log) ==
    log # <<>> /\ log[Len(log)].role = "assistant"

\* C27: a chat turn whose provider has no usable model (no credential for
\* the online provider, or the on-device capability absent while offline)
\* makes no generation call, does not raise, and ends with its error
\* message as an assistant message of the conversation.
C27_RefusedTurnTellsAssistant ==
    [][(turn'.n = turn.n + 1 /\ NoUsableModel(client')) =>
          /\ turn'.gen = 0
          /\ ~llmOut'.raised
          /\ turn'.ended \in {"unavailable", "notConfigured"}
          /\ EndsWithAssistant(messages')]_vars

\* ------------------------------------------------ pairing credential (C28)
\* exp: now + (ttlSec > 0 ? ttlSec : 300)
DEFAULT_TTL_SEC == 300

\* process.env.BRIDGE_TOKEN_TTL_SEC: unset, or one of these texts.
TtlEnv == {"unset", "0", "-5", "2"}

\* Number(process.env.BRIDGE_TOKEN_TTL_SEC || 300)
TtlNumber(env) ==
    CASE env = "unset" -> DEFAULT_TTL_SEC
      [] env = "0"     -> 0
      [] env = "-5"    -> 0 - 5
      [] env = "2"     -> 2

\* A lifetime taken from the environment as it is.
LifetimeAsConfigured(env) == TtlNumber(env)

\* ttlSec > 0 ? ttlSec : 300
Lifetime(env) == IF TtlNumber(env) > 0 THEN TtlNumber(env) ELSE DEFAULT_TTL_SEC

\* jwt.sign({ sub, iat: now, nbf: now, exp: now + lifetime }, secret).
\* sig "good": signed with the secret the bridge verifies with
\* (process.env.BRIDGE_JWT_SECRET || "dev-secret" on both sides).
jwtSign(now, env, secret) == [sig |-> secret, nbf |-> now, exp |-> now + Lifetime(env)]

\* `blueberry,v1,${token}`, as its comma-separated parts
ProtoOf(token) == <<"blueberry", "v1", token>>

\* authOk: (proto || "").split(",").map(trim)[2]
ThirdPart(proto) == IF Len(proto) >= 3 THEN proto[3] ELSE NoToken

\* The headers a client may send once it has scanned a QR payload: the proto
\* string as issued, the same claims signed with another secret, and the
\* string without its third part.
Offers ==
    IF issued = <<>> THEN {}
    ELSE {issued, ProtoOf([issued[3] EXCEPT !.sig = "bad"]), SubSeq(issued, 1, 2)}

\* The clock readings tried: the first seconds, and the seconds around the
\* expiry of the latest credential.
ClockPoints ==
    Time \cup (IF issued = <<>> THEN {}
               ELSE {issued[3].exp - 1, issued[3].exp, issued[3].exp + 1})

\* createBridgeQrDataUrl(): the credential in the QR payload.
CreateBridgeQr ==
    /\ clock \in Time
    /\ issued' = ProtoOf(jwtSign(clock, ttlEnv, "good"))
    /\ out' = [NoOut EXCEPT !.call = "createBridgeQr"]
    /\ UNCHANGED <<bridgeVars, pingSecEnv, lastOnline, ttlEnv, clock, offered, consume, prompt, switching, sockVars,
                   winVars, uiBridgeConnected, pending, llmVars>>

\* Time passes.
Advance(to) ==
    /\ to \in ClockPoints
    /\ to > clock
    /\ clock' = to
    /\ out' = NoOut
    /\ UNCHANGED <<bridgeVars, pingSecEnv, lastOnline, ttlEnv, issued, offered, consume, prompt, switching, sockVars,
                   winVars, uiBridgeConnected, pending, llmVars>>

\* A client sends its upgrade request with this sec-websocket-protocol.
Offer(proto) ==
    /\ proto \in Offers
    /\ offered' = proto
    /\ out' = NoOut
    /\ UNCHANGED <<bridgeVars, pingSecEnv, lastOnline, ttlEnv, clock, issued, consume, prompt, switching, sockVars,
                   winVars, uiBridgeConnected, pending, llmVars>>

\* The upgrade request arrives: wsServer.on("connection") with the header
\* offered, verified at the current clock.
Upgrade(c) ==
    /\ offered # <<>>
    /\ Connection(c, ThirdPart(offered), clock)

InitPair ==
    /\ InitBridge
    /\ pingSecEnv = "unset"
    /\ lastOnline = "null"
    /\ ttlEnv \in TtlEnv
    /\ InitPairing
    /\ InitConsume
    /\ InitPrompt
    /\ InitStore
    /\ InitModel(FALSE, TRUE)
    /\ InitTurn

NextPair ==
    \/ Start
    \/ CreateBridgeQr
    \/ \E to \in ClockPoints : Advance(to)
    \/ \E proto \in Offers : Offer(proto)
    \/ \E c \in Conn : Upgrade(c)

SpecPair == InitPair /\ [][NextPair]_vars

\* C28: a credential issued at time t, with lifetime L the configured
\* lifetime when that is positive and 300 seconds otherwise, offered as the
\* third part of the subprotocol string, is admitted by a handshake at every
\* time in [t, t + L), rejected (close 4001) at every time from t + L on,
\* and rejected at any time when it is signed with another secret.
C28_CredentialWindow ==
    \A c \in Conn :
       (out.hshake.conn = c /\ Len(offered) = 3) =>
          LET tok == offered[3]
              L == IF ttlEnv = "2" THEN 2 ELSE DEFAULT_TTL_SEC
              admitted == c \in clients /\ readyState[c] = "OPEN" /\ listening[c]
              rejected == c \notin clients /\ closeCode[c] = UNAUTHORIZED
          IN  /\ (tok.sig = "good" /\ tok.nbf <= clock /\ clock < tok.nbf + L) => admitted
              /\ (tok.sig = "good" /\ clock >= tok.nbf + L) => rejected
              /\ tok.sig # "good" => rejected

\* With a lifetime of "0" configured, a credential is admitted in the last
\* second of the 300 it gets.
C28_Witness ==
    \E c \in Conn :
       /\ out.hshake = [conn |-> c, verify |-> "ok"]
       /\ ttlEnv = "0"
       /\ offered = issued
       /\ clock = offered[3].nbf + DEFAULT_TTL_SEC - 1
       /\ c \in clients

\* ------------------------------------------- setOfflineMode's return (C29)
\* C29: the value setOfflineMode(enabled) returned is the offline flag
\* getOfflineMode() reports right after the call, for both values of
\* enabled; and when it returned true the on-device provider is the active
\* one and has a model.
C29_ReturnIsModeHonored ==
    llmOut.op = "setOfflineMode" =>
       /\ llmOut.ret = BoolStr(client.offlineMode)
       /\ llmOut.ret = "true" =>
             /\ client.provider = "apple"
             /\ client.model = "apple"
             /\ client.appleAvailable

\* ------------------------------------------------ answered probes (C30)
\* C30: a heartbeat tick does not terminate or evict a member that has
\* answered since the previous tick (a pong, or its admission, came after
\* that tick): it stays in the active set with its socket as it was and is
\* probed again, whatever the tick does to the other members.
C30_AnsweringMemberSurvives ==
    [][out'.call = "tick"
       => \A c \in clients :
             sincePong[c] = 0 =>
                /\ c \in clients'
                /\ readyState'[c] = readyState[c]
                /\ closeCode'[c] = closeCode[c]
                /\ c \in out'.pinged]_vars

\* The first connection has been probed again by the latest tick while the
\* second, admitted after it and silent for two ticks, was terminated: the
\* first answered the probe of the tick before.
C30_Witness ==
    /\ out.call = "tick"
    /\ 1 \in out.pinged
    /\ readyState[1] = "OPEN"
    /\ sincePong[1] = 1
    /\ 2 \notin clients
    /\ sincePong[2] = 2
    /\ closeCode[2] = ABNORMAL

\* ------------------------------------------------ the slot after a turn (C31)
\* C31: once a chat turn has finished (its promise has settled and no
\* fallback of it is still to run), no stream slot is open, whether its
\* generation call completed or raised part-way through the chunk stream.
C31_SlotClosedAfterTurn ==
    (turn.n > 0 /\ ~fallbackPending) => streamingIndex = -1

\* ------------------------------------------------------- Streamer.consume
\* Everything but the log, the slot, the latest step and the consume runs.
consumeRest ==
    <<bridgeVars, pingSecEnv, lastOnline, ttlEnv, clock, issued, offered, prompt, switching, sockVars,
      winVars, uiBridgeConnected, pending, modelVars, turnVars>>

\* A store that mirrors every chunk twice.
StreamFramesTwice(chunk) == <<Chat("assistant", chunk[1]), Chat("assistant", chunk[1])>>

\* bridgeSafeChat(chunk) in beginStream and appendStream: one frame.
StreamFrames(chunk) == <<Chat("assistant", chunk[1])>>

\* The step record of a store call that mirrored frames.
MirrorOut(frames, fail) ==
    [NoOut EXCEPT !.call = "consume", !.emitted = frames, !.threw = fail,
                  !.wire = emitEach(clients, readyState, frames, fail)]

\* A turn calls consume on the text stream of its generation call.
ConsumeStart(s) ==
    /\ consume[s].phase = "idle"
    /\ consume' = [consume EXCEPT ![s] = [NoConsume EXCEPT !.phase = "run"]]
    /\ llmOut' = [NoLlmOut EXCEPT !.op = "consume:start"]
    /\ out' = NoOut
    /\ streamed' = NoRun
    /\ UNCHANGED <<messages, streamingIndex, consumeRest>>

\* One pass of the for-await loop of run s with this chunk:
\*   if (!chunk) continue;
\*   if (first) beginStream(chunk) else appendStream(chunk)
\* appendStream with no slot open is beginStream; with the slot on an index
\* the log does not have, messages[streamingIndex].content throws and the
\* exception leaves consume.  A stream yields at most MaxText non-empty
\* chunks.
ConsumeChunk(s, chunk) ==
    /\ consume[s].phase = "run"
    /\ streamed' = NoRun
    /\ UNCHANGED consumeRest
    /\ IF chunk = <<>>
          THEN /\ llmOut' = [NoLlmOut EXCEPT !.op = "consume:skip"]
               /\ out' = [NoOut EXCEPT !.call = "consume:skip"]
               /\ UNCHANGED <<messages, streamingIndex, consume>>
          ELSE IF consume[s].first \/ streamingIndex = -1
          THEN /\ Len(messages) < MaxLog
               /\ Len(consume[s].text) < MaxText
               /\ streamingIndex' = Len(messages)
               /\ messages' = beginStream(messages, streamingIndex, chunk)
               /\ consume' = [consume EXCEPT
                                ![s].first = FALSE,
                                ![s].text = @ \o chunk,
                                ![s].sent = @ \o <<StreamFrames(chunk)[1].body>>,
                                ![s].slot = IF consume[s].first THEN Len(messages) ELSE @]
               /\ llmOut' = [NoLlmOut EXCEPT !.op = "consume:begin", !.notified = 1,
                                             !.arg = chunk, !.slotWas = streamingIndex]
               /\ \E fail \in FailSets(clients, readyState) :
                     out' = MirrorOut(StreamFrames(chunk), fail)
          ELSE IF streamingIndex >= Len(messages)
          THEN /\ consume' = [consume EXCEPT ![s].phase = "threw"]
               /\ llmOut' = [NoLlmOut EXCEPT !.op = "consume:append", !.raised = TRUE,
                                             !.arg = chunk, !.slotWas = streamingIndex]
               /\ out' = NoOut
               /\ UNCHANGED <<messages, streamingIndex>>
          ELSE /\ Len(messages[streamingIndex + 1].content) < MaxText
               /\ Len(consume[s].text) < MaxText
               /\ messages' = appendStream(messages, streamingIndex, chunk)
               /\ consume' = [consume EXCEPT
                                ![s].text = @ \o chunk,
                                ![s].sent = @ \o <<StreamFrames(chunk)[1].body>>]
               /\ llmOut' = [NoLlmOut EXCEPT !.op = "consume:append", !.notified = 1,
                                             !.arg = chunk, !.slotWas = streamingIndex]
               /\ UNCHANGED streamingIndex
               /\ \E fail \in FailSets(clients, readyState) :
                     out' = MirrorOut(StreamFrames(chunk), fail)

\* The stream ends: if (!first) endStream(); return finalText
ConsumeEnd(s) ==
    /\ consume[s].phase = "run"
    /\ consume' = [consume EXCEPT ![s].phase = "done"]
    /\ streamingIndex' = IF consume[s].first THEN streamingIndex ELSE -1
    /\ llmOut' = [NoLlmOut EXCEPT !.op = "consume:end",
                                  !.notified = IF consume[s].first THEN 0 ELSE 1,
                                  !.slotWas = streamingIndex]
    /\ out' = NoOut
    /\ streamed' = NoRun
    /\ UNCHANGED <<messages, consumeRest>>

\* The text stream throws: the loop is left, endStream is not reached.
ConsumeThrow(s) ==
    /\ consume[s].phase = "run"
    /\ consume' = [consume EXCEPT ![s].phase = "threw"]
    /\ llmOut' = [NoLlmOut EXCEPT !.op = "consume:throw", !.slotWas = streamingIndex]
    /\ out' = NoOut
    /\ streamed' = NoRun
    /\ UNCHANGED <<messages, streamingIndex, consumeRest>>

\* The chunks a text stream yields: the non-empty ones and the empty one.
StreamChunks == Chunks \cup {<<>>}

\* One streamed turn at a time, with remote clients connected: the user's
\* message, the run of consume, connections.
NextStream ==
    \/ Start
    \/ \E c \in Conn, tok \in Tokens, now \in Time : Connection(c, tok, now)
    \/ AddUser(Hi)
    \/ ConsumeStart(1)
    \/ \E chunk \in StreamChunks : ConsumeChunk(1, chunk)
    \/ ConsumeEnd(1)
    \/ ConsumeThrow(1)

SpecStream == Init /\ [][NextStream]_vars

\* C32: in a streamed turn every non-empty chunk is mirrored as exactly one
\* assistant ChatFrame whose text is the chunk, which every open connection
\* receives in that step (so in the order of the chunks); an empty chunk
\* produces no frame, changes no message and opens no slot; and the texts of
\* the frames, in order, put together are the content of the turn's
\* assistant message, which is the text consume returns.
C32_ChunksMirroredInOrder ==
    /\ [][/\ out'.call = "consume" =>
               /\ llmOut'.op \in {"consume:begin", "consume:append"}
               /\ out'.emitted = <<Chat("assistant", llmOut'.arg[1])>>
               /\ \A c \in clients :
                     (readyState[c] = "OPEN" /\ c \notin out'.threw)
                        => out'.wire[c] = out'.emitted
          /\ out'.call = "consume:skip" =>
               /\ out'.emitted = <<>>
               /\ UNCHANGED <<messages, streamingIndex, consume>>]_vars
    /\ [](\A s \in Streams :
            (consume[s].phase \in {"run", "done"} /\ ~consume[s].first) =>
               /\ consume[s].sent = consume[s].text
               /\ consume[s].slot < Len(messages)
               /\ messages[consume[s].slot + 1] = Msg("assistant", consume[s].text))

\* A stream of three non-empty chunks has ended behind the user's message
\* while a remote client is in the active set.
C32_Witness ==
    /\ consume[1].phase = "done"
    /\ Len(consume[1].text) = 3
    /\ messages = <<Msg("user", Hi), Msg("assistant", consume[1].text)>>
    /\ streamingIndex = -1
    /\ clients # {}

\* ------------------------------------------ appendStream with no slot (C33)
\* C33: appendStream(c) called while no slot is open does what
\* beginStream(c) does: the log is the log before with one assistant message
\* of content c added at its end, the slot is open on that message, the UI
\* was notified once and c was mirrored once; it does not raise, and every
\* message that was there is where it was.
C33_AppendWithoutSlotBegins ==
    [][(llmOut'.op = "appendStream" /\ streamingIndex = -1) =>
          \E c \in Chunks :
             /\ messages' = Append(messages, Msg("assistant", c))
             /\ streamingIndex' = Len(messages)
             /\ llmOut'.notified = 1
             /\ ~llmOut'.raised
             /\ out'.emitted = <<Chat("assistant", c[1])>>]_vars

\* appendStream has run with no slot open behind an assistant message: the
\* log has that message and the new one, with the slot on the new one.
C33_Witness ==
    /\ llmOut.op = "appendStream"
    /\ llmOut.slotWas = -1
    /\ streamingIndex = 1
    /\ Len(messages) = 2
    /\ messages[1].role = "assistant"
    /\ messages[2].role = "assistant"

\* ------------------------------------------------- prompt assembly (C34)
\* A text is held as its runs: each run is one kind of character ("x" a
\* non-whitespace character, "s" a whitespace character, "." the marker's
\* dot) repeated n times.  The absent text (null) and the empty text are both
\* <<>>: every test of the code on them is a truthiness test.
MAX_CONTEXT_LENGTH == 4000
APPLE_EXCERPT_LENGTH == 800

Run(ch, n) == <<[ch |-> ch, n |-> n]>>

RECURSIVE TextLen(_)
TextLen(t) == IF t = <<>> THEN 0 ELSE t[1].n + TextLen(Tail(t))

\* text.substring(0, k)
RECURSIVE substring(_, _)
substring(t, k) ==
    IF t = <<>> \/ k <= 0 THEN <<>>
    ELSE IF t[1].n <= k THEN <<t[1]>> \o substring(Tail(t), k - t[1].n)
    ELSE Run(t[1].ch, k)

\* text.replace(/\s+/g, " "): every run of whitespace becomes one space.
ReplaceSpaces(t) == [i \in 1..Len(t) |-> IF t[i].ch = "s" THEN [t[i] EXCEPT !.n = 1] ELSE t[i]]

\* text.trim(): whitespace at either end goes.
trim(t) ==
    LET noHead == IF t # <<>> /\ t[1].ch = "s" THEN Tail(t) ELSE t
    IN  IF noHead # <<>> /\ noHead[Len(noHead)].ch = "s"
           THEN SubSeq(noHead, 1, Len(noHead) - 1)
           ELSE noHead

\* A truncate that cuts and leaves the marker out.
truncateUnmarked(text, maxLength) == substring(text, maxLength)

\* truncate(text, maxLength)
truncate(text, maxLength) ==
    IF TextLen(text) <= maxLength THEN text
    ELSE substring(text, maxLength) \o Run(".", 3)

\* buildAppleSystem(): a fixed system message.
buildAppleSystem == [role |-> "system", url |-> "null", title |-> "null", page |-> <<>>]

\* buildAppleContext(url, title, pageText): the parts pushed, or no message
\* (the empty sequence) when no part was pushed.
buildAppleContext(url, title, pageText) ==
    LET normalized == trim(ReplaceSpaces(pageText))
        excerpt    == IF pageText # <<>>
                         THEN truncate(normalized, Min(APPLE_EXCERPT_LENGTH, MAX_CONTEXT_LENGTH))
                         ELSE <<>>
    IN  IF url = "null" /\ title = "null" /\ excerpt = <<>>
           THEN <<>>
           ELSE <<[role |-> "assistant", url |-> url, title |-> title, page |-> excerpt]>>

\* buildOnlineSystem(url, pageText, title): one system message with the
\* lines pushed.
buildOnlineSystem(url, pageText, title) ==
    [role |-> "system", url |-> url, title |-> title,
     page |-> IF pageText # <<>> THEN truncate(pageText, MAX_CONTEXT_LENGTH) ELSE <<>>]

\* prepareMessagesWithContext() for this provider, page and log.
prepareMessagesWithContext(provider, url, title, pageText, log) ==
    IF provider = "apple"
       THEN <<buildAppleSystem>> \o buildAppleContext(url, title, pageText) \o log
       ELSE <<buildOnlineSystem(url, pageText, title)>> \o log

\* The page texts tried: absent, whitespace only, short, at and over either
\* cap, and texts whose whitespace decides on which side of the cap they fall.
PageTexts ==
    { <<>>,
      Run("s", 2),
      Run("x", 1),
      Run("x", APPLE_EXCERPT_LENGTH),
      Run("x", APPLE_EXCERPT_LENGTH + 1),
      Run("x", MAX_CONTEXT_LENGTH),
      Run("x", MAX_CONTEXT_LENGTH + 1),
      Run("x", APPLE_EXCERPT_LENGTH - 400) \o Run("s", 5) \o Run("x", 399),
      Run("x", APPLE_EXCERPT_LENGTH - 400) \o Run("s", 5) \o Run("x", 400),
      Run("s", 3) \o Run("x", APPLE_EXCERPT_LENGTH) \o Run("s", 2),
      Run("x", APPLE_EXCERPT_LENGTH - 1) \o Run("s", 2) \o Run("x", 5),
      Run("x", MAX_CONTEXT_LENGTH - 2) \o Run("s", 4) \o Run("x", 1) }

PageUrls == {"null", "https://a"}
PageTitles == {"null", "A"}

\* A turn assembles its prompt from the active tab and the log.  getTabText
\* failing leaves the text absent.
PrepareMessages(provider, url, title, pageText) ==
    /\ prompt' = [provider |-> provider, url |-> url, title |-> title, text |-> pageText,
                  log |-> messages,
                  msgs |-> prepareMessagesWithContext(provider, url, title, pageText, messages)]
    /\ llmOut' = [NoLlmOut EXCEPT !.op = "prepareMessages"]
    /\ out' = [NoOut EXCEPT !.call = "prepareMessages"]
    /\ UNCHANGED <<bridgeVars, pingSecEnv, lastOnline, ttlEnv, clock, issued, offered, consume,
                   switching, sockVars, winVars, uiBridgeConnected, pending, storeVars,
                   modelVars, turnVars>>

NextPrompt ==
    \/ AddUser(Hi)
    \/ \E chunk \in Chunks : AddAssistant(chunk)
    \/ \E provider \in {"apple", "openai"}, url \in PageUrls, title \in PageTitles,
          pageText \in PageTexts : PrepareMessages(provider, url, title, pageText)

SpecPrompt == Init /\ [][NextPrompt]_vars

\* Reading an assembled page text: its marker and what stands before it.
HasMarker(t) == t # <<>> /\ t[Len(t)] = [ch |-> ".", n |-> 3]
BeforeMarker(t) == IF HasMarker(t) THEN SubSeq(t, 1, Len(t) - 1) ELSE t

\* p is the first TextLen(p) characters of t.
IsPrefixText(p, t) ==
    /\ Len(p) <= Len(t)
    /\ \A i \in 1..Len(p) :
          /\ p[i].ch = t[i].ch
          /\ IF i < Len(p) THEN p[i] = t[i] ELSE p[i].n <= t[i].n

\* got is src cut to cap characters, with the marker exactly when src was
\* longer than cap, and src itself otherwise.
CutTo(got, src, cap) ==
    IF TextLen(src) > cap
       THEN /\ HasMarker(got)
            /\ TextLen(BeforeMarker(got)) = cap
            /\ IsPrefixText(BeforeMarker(got), src)
       ELSE got = src

\* C34: an assembled prompt is, on the on-device path, a system message,
\* then a context message (none when url, title and text are all absent),
\* then the whole log; on the cloud path one system message, then the whole
\* log.  The context excerpt is the whitespace-normalised page text cut to at
\* most 800 characters and the cloud page content the page text cut to at
\* most 4000, each with the marker "..." exactly when the text was longer
\* than its cap and unchanged otherwise.
C34_PromptAssembly ==
    prompt.provider # "-" =>
       LET msgs == prompt.msgs
           absent == prompt.url = "null" /\ prompt.title = "null" /\ prompt.text = <<>>
           norm == trim(ReplaceSpaces(prompt.text))
       IN  /\ msgs # <<>>
           /\ msgs[1].role = "system"
           /\ IF prompt.provider = "apple"
                 THEN /\ absent => msgs = <<msgs[1]>> \o prompt.log
                      /\ (prompt.url # "null" \/ prompt.title # "null" \/ norm # <<>>) =>
                            /\ Len(msgs) = Len(prompt.log) + 2
                            /\ SubSeq(msgs, 3, Len(msgs)) = prompt.log
                            /\ msgs[2].url = prompt.url
                            /\ msgs[2].title = prompt.title
                            /\ CutTo(msgs[2].page, norm, APPLE_EXCERPT_LENGTH)
                            /\ TextLen(BeforeMarker(msgs[2].page)) <= APPLE_EXCERPT_LENGTH
                            /\ \A i \in 1..Len(msgs[2].page) :
                                  msgs[2].page[i].ch = "s" => msgs[2].page[i].n = 1
                 ELSE /\ msgs = <<msgs[1]>> \o prompt.log
                      /\ msgs[1].url = prompt.url
                      /\ msgs[1].title = prompt.title
                      /\ CutTo(msgs[1].page, prompt.text, MAX_CONTEXT_LENGTH)
                      /\ TextLen(BeforeMarker(msgs[1].page)) <= MAX_CONTEXT_LENGTH

\* An on-device prompt assembled over a log of two messages from a page whose
\* normalised text is still over the cap and is cut inside its whitespace:
\* the excerpt is 800 characters and the marker.
C34_Witness ==
    /\ prompt.provider = "apple"
    /\ Len(prompt.text) = 3
    /\ TextLen(trim(ReplaceSpaces(prompt.text))) > APPLE_EXCERPT_LENGTH
    /\ Len(prompt.msgs) = 4
    /\ Len(prompt.log) = 2
    /\ HasMarker(prompt.msgs[2].page)
    /\ TextLen(prompt.msgs[2].page) = APPLE_EXCERPT_LENGTH + 3
    /\ prompt.msgs[2].page[2].ch = "s"

\* ------------------------------------------------- heartbeat period (C35)
\* How far the clock of the timed life cycle runs.
MaxBeatTime == 60

\* The interval set by start() fires: HeartbeatPeriod seconds after it was
\* set or last fired, the callback runs (the sweep of HeartbeatTick).  The
\* other steps of the timed life cycle take no time.
HeartbeatFires ==
    /\ liveTimers > 0
    /\ clock + HeartbeatPeriod <= MaxBeatTime
    /\ clock' = clock + HeartbeatPeriod
    /\ clients' = clients \ Evicted
    /\ connectionAlive' =
          [c \in Conn |-> IF c \in clients \ Evicted THEN ProbedFlag(c) ELSE connectionAlive[c]]
    /\ readyState' =
          [c \in Conn |-> IF c \in Evicted /\ readyState[c] # "CLOSED"
                             THEN "CLOSING" ELSE readyState[c]]
    /\ closeCode' =
          [c \in Conn |-> IF c \in Evicted /\ closeCode[c] = 0 THEN ABNORMAL ELSE closeCode[c]]
    /\ sincePong' =
          [c \in Conn |-> IF c \in clients THEN Min(sincePong[c] + 1, 2) ELSE sincePong[c]]
    /\ UNCHANGED <<httpServer, wsServer, heartbeatTimer, liveServers, liveTimers,
                   pingSecEnv, lastOnline, ttlEnv, issued, offered, consume, prompt, switching,
                   llmVars, listening, winVars, uiBridgeConnected, pending>>
    /\ out' = [NoOut EXCEPT !.call = "tick", !.pinged = clients \ Evicted]

InitTimed ==
    /\ InitBridgeCore
    /\ pingSecEnv \in PingSecEnvTimed
    /\ InitSystem
    /\ InitStore
    /\ InitModel(FALSE, TRUE)
    /\ InitTurn

\* The life cycle with the time between heartbeats.
NextTimed ==
    \/ Start
    \/ Stop
    \/ \E c \in Conn, tok \in Tokens : Connection(c, tok, 1)
    \/ \E c \in Conn : Pong(c)
    \/ \E c \in Conn : SocketClosed(c)
    \/ HeartbeatFires

SpecTimed == InitTimed /\ [][NextTimed]_vars

\* C35: every heartbeat comes max(10, configured) seconds after the timer
\* was set or the heartbeat before it, the configured ping interval being
\* positive; with a configured interval of zero or less no timer is ever
\* set, no heartbeat runs, and no connection is probed or evicted for a
\* missing pong.
C35_HeartbeatPeriodClamped ==
    /\ [][out'.call = "tick" =>
             /\ PingSec > 0
             /\ clock' - clock = IF PingSec < 10 THEN 10 ELSE PingSec]_vars
    /\ [](PingSec <= 0 =>
             /\ ~heartbeatTimer
             /\ liveTimers = 0
             /\ out.call # "tick"
             /\ out.pinged = {}
             /\ \A c \in Conn : connectionAlive[c] # "false" /\ sincePong[c] = 0)

\* With 5 seconds configured the second heartbeat has run at 20 seconds: it
\* evicted a connection that had not answered the first and probed another.
C35_Witness ==
    /\ pingSecEnv = "5"
    /\ out.call = "tick"
    /\ clock = 20
    /\ out.pinged # {}
    /\ \E c \in Conn : c \notin clients /\ sincePong[c] = 2 /\ readyState[c] = "CLOSING"

\* --------------------------------------- the log replaced mid-stream (C36)
\* One streamed turn while the log is replaced under it: the sidebar's
\* clear-chat, setAll, and the QR prompt with the admission that removes it.
NextReplace ==
    \/ Start
    \/ \E c \in Conn, tok \in Tokens : Connection(c, tok, 1)
    \/ AddUser(Hi)
    \/ GenerateBridgeQr
    \/ Clear
    \/ \E msgs \in Logs : SetAll(msgs)
    \/ ConsumeStart(1)
    \/ \E chunk \in StreamChunks : ConsumeChunk(1, chunk)
    \/ ConsumeEnd(1)

SpecReplace == Init /\ [][NextReplace]_vars

\* C36: whatever was done to the log while the slot was open, a chunk of the
\* running turn does not raise and leaves the log with the turn's own
\* assistant message holding the turn's text so far, every other message
\* being what it was.
C36_AppendSurvivesReplacement ==
    [][(consume[1].phase = "run" /\ consume'[1] # consume[1]
          /\ llmOut'.op \in {"consume:begin", "consume:append"}) =>
          /\ ~llmOut'.raised
          /\ consume'[1].phase = "run"
          /\ \E i \in 1..Len(messages') :
                /\ messages'[i] = Msg("assistant", consume'[1].text)
                /\ \A j \in 1..Len(messages) : j # i => messages'[j] = messages[j]]_vars

\* ----------------------------------------------- two turns at once (C37)
\* The chunks of stream s: stream 1 yields "a"s, stream 2 "b"s, so that a
\* message shows whose chunks it holds.
ChunkOf(s) == IF s = 1 THEN <<"a">> ELSE <<"b">>

\* Two turns stream side by side: handleCmd is not awaited by onMessage and
\* the sidebar's handler runs beside it, and every await of the for-await
\* loop lets the other turn's next chunk in.
NextTwo ==
    \/ Start
    \/ \E c \in Conn, tok \in Tokens : Connection(c, tok, 1)
    \/ \E s \in Streams : ConsumeStart(s)
    \/ \E s \in Streams : ConsumeChunk(s, ChunkOf(s))
    \/ \E s \in Streams : ConsumeEnd(s)

SpecTwo == Init /\ [][NextTwo]_vars

\* C37: with two turns streaming at once, no message holds chunks of both
\* turns, and a turn whose stream has ended left one assistant message that
\* is its own chunks put together.
C37_ChunksStayWithTheirTurn ==
    /\ \A i \in 1..Len(messages) :
          ~(\E j, k \in 1..Len(messages[i].content) :
               messages[i].content[j] = "a" /\ messages[i].content[k] = "b")
    /\ \A s \in Streams :
          (consume[s].phase = "done" /\ ~consume[s].first) =>
             /\ consume[s].slot < Len(messages)
             /\ messages[consume[s].slot + 1] = Msg("assistant", consume[s].text)

\* -------------------------------------- the provider state mid-switch (C38)
\* ModelManager.setOfflineMode(true) up to its first suspension:
\*   if (this.offlineMode === enabled) return ...;
\*   this.provider = "apple"; this.modelName = this.getModelName();
\*   await this.initializeModel()      -> await checkAppleAvailability()
\* The call is suspended there when the availability has not been checked
\* yet; offlineMode is assigned only after the await.
SwitchBegin ==
    /\ ~initPending
    /\ switching.phase = "idle"
    /\ ~modelManager.offlineMode
    /\ ~modelManager.appleAvailabilityChecked
    /\ modelManager' = [modelManager EXCEPT !.provider = "apple"]
    /\ switching' = [switching EXCEPT !.phase = "await",
                                      !.mmName = getModelName("apple")]
    /\ llmOut' = [NoLlmOut EXCEPT !.op = "setOfflineMode:await", !.enabled = TRUE]
    /\ out' = NoOut
    /\ UNCHANGED <<bridgeVars, pingSecEnv, lastOnline, ttlEnv, clock, issued, offered, consume,
                   prompt, sockVars, winVars, uiBridgeConnected, pending, storeVars, turnVars,
                   client, hasKey, appleAIModel, initPending>>

\* checkAppleAvailability() resolves: the rest of setOfflineMode(true), then
\* LLMClient.setOfflineMode's syncFromManager.
SwitchResume(avail, created) ==
    /\ switching.phase = "await"
    /\ LET r == switchOfflineMode(modelManager, TRUE, hasKey, avail, created)
       IN  /\ modelManager' = r.mm
           /\ client' = syncFromManager(r.mm)
           /\ switching' = [phase |-> "idle",
                            mmName |-> getModelName(r.mm.provider),
                            clName |-> getModelName(r.mm.provider)]
           /\ appleAIModel' = (appleAIModel \/ r.mm.model = "apple")
           /\ llmOut' = [NoLlmOut EXCEPT !.op = "setOfflineMode", !.enabled = TRUE,
                                         !.ret = BoolStr(r.ret)]
    /\ out' = NoOut
    /\ UNCHANGED <<bridgeVars, pingSecEnv, lastOnline, ttlEnv, clock, issued, offered, consume,
                   prompt, sockVars, winVars, uiBridgeConnected, pending, storeVars, turnVars,
                   hasKey, initPending>>

\* Another caller's LLMClient.setOfflineMode(enabled) whose manager call
\* takes the early return (offlineMode is already the value asked for):
\* nothing is awaited on, and syncFromManager copies the manager's fields as
\* they stand.
SwitchNoop(enabled) ==
    /\ ~initPending
    /\ modelManager.offlineMode = enabled
    /\ client' = syncFromManager(modelManager)
    /\ switching' = [switching EXCEPT !.clName = switching.mmName]
    /\ llmOut' = [NoLlmOut EXCEPT !.op = "setOfflineMode", !.enabled = enabled,
                                  !.ret = BoolStr(modelManager.offlineMode)]
    /\ out' = NoOut
    /\ UNCHANGED <<bridgeVars, pingSecEnv, lastOnline, ttlEnv, clock, issued, offered, consume,
                   prompt, sockVars, winVars, uiBridgeConnected, pending, storeVars, turnVars,
                   modelManager, hasKey, appleAIModel, initPending>>

\* The provider being switched by one caller while others call in, beside
\* the log.
NextSwitch ==
    \/ \E avail \in Availabilities, created \in BOOLEAN : ManagerInit(avail, created)
    \/ SwitchBegin
    \/ \E avail \in Availabilities, created \in BOOLEAN : SwitchResume(avail, created)
    \/ \E enabled \in BOOLEAN : SwitchNoop(enabled)
    \/ AddUser(Hi)
    \/ \E chunk \in Chunks : AddAssistant(chunk)
    \/ Clear

SpecSwitch == Init /\ [][NextSwitch]_vars

\* C38: in every state the fields LLMClient serves its callers from are
\* consistent: the offline flag is true exactly when the provider is the
\* on-device one, and the model name is null exactly when it is.
C38_ProviderStateConsistent ==
    /\ client.offlineMode <=> client.provider = "apple"
    /\ switching.clName = "null" <=> client.provider = "apple"

\* --------------------------------------- the Response and the turn (C39)
\* handleCmd, sendChat, after `await this.llm.sendChatMessage(...)` has
\* settled: this.send(ws, { type: "res", id: msg.id, ok: true, data: {} }).
\* It runs as the continuation of the turn that just settled; a fallback the
\* turn detached is still to run.
SendChatRes(c, f) ==
    /\ llmOut.op = "sendChatMessage"
    /\ listening[c]
    /\ f.name = "sendChat"
    /\ llmOut' = [NoLlmOut EXCEPT !.op = "sendChat:res"]
    /\ out' = Finish(Cmd(c, f, f.arg), "ok", "-", ReplyOk(f, "{}"), <<>>, <<>>, {})
    /\ UNCHANGED <<progVars, storeVars, modelVars, turnVars>>

\* The turns of sendChat commands with their Responses: the bridge with a
\* client admitted, the provider, the turn, the Response and the fallback.
NextReply ==
    \/ Start
    \/ \E c \in Conn, tok \in Tokens : Connection(c, tok, 1)
    \/ \E avail \in AvailOutcomes, created \in CreateOutcomes :
          ManagerInit(avail, created)
    \/ \E online \in OnlineOutcomes, avail \in AvailOutcomes, created \in CreateOutcomes :
          \E g \in GensOf("plain") :
             \E follow \in FollowOutcomes(g) :
                SendChatMessage("plain", online, avail, created, g, follow, TRUE)
    \/ \E c \in Conn, f \in Frames : SendChatRes(c, f)
    \/ \E avail \in AvailOutcomes, created \in CreateOutcomes, retry \in {"none", "some"} :
          LocaleFallback(avail, created, retry)

SpecReply == InitLlm /\ [][NextReply]_vars

\* C39: once the Response to a sendChat command has been sent, the turn it
\* started does nothing more: a step of that turn's fallback coming after
\* the Response makes no generation call, leaves the log as it is and
\* mirrors no assistant ChatFrame.
C39_ResponseAfterTurn ==
    [][(llmOut.op = "sendChat:res" /\ llmOut'.op = "localeFallback") =>
          /\ turn'.gen = turn.gen
          /\ messages' = messages
          /\ \A i \in 1..Len(out'.emitted) :
                ~(out'.emitted[i].type = "chat" /\ out'.emitted[i].role = "assistant")]_vars

====
